---------------------------- MODULE Spec2Model ----------------------------
(***************************************************************************)
(* Model of src/app.py: the alias/normalisation layer, the catalog cache,  *)
(* the bounded year-data cache and the request handlers built on them.     *)
(*                                                                         *)
(* Python values are modelled as follows.                                  *)
(*   str            a TLA+ string                                          *)
(*   None / value   a sequence of length 0 (None) or 1 (<<value>>)         *)
(*   list           a sequence                                             *)
(*   dict           a sequence of [key, ...] records in insertion order    *)
(*                  (a Python dict iterates in insertion order and an      *)
(*                  overwrite keeps the key's position)                    *)
(***************************************************************************)
EXTENDS Integers, Sequences, FiniteSets, TLC

(***************************************************************************)
(* Strings                                                                 *)
(***************************************************************************)
UpperAlpha == "ABCDEFGHIJKLMNOPQRSTUVWXYZ"
LowerAlpha == "abcdefghijklmnopqrstuvwxyz"
Digits == "0123456789"

CharAt(s, i) == SubSeq(s, i, i)

Contains(hay, needle) ==
    \E i \in 1..(Len(hay) - Len(needle) + 1) :
        SubSeq(hay, i, i + Len(needle) - 1) = needle

IsSpace(c) == c \in {" ", "\t", "\n"}

\* The characters of [0-9], of [a-z], and str.lower() on the letters A-Z.
DigitChars == {CharAt(Digits, i) : i \in 1..Len(Digits)}
LowerLetters == {CharAt(LowerAlpha, i) : i \in 1..Len(LowerAlpha)}
LowerOf ==
    [c \in {CharAt(UpperAlpha, i) : i \in 1..Len(UpperAlpha)} |->
        CharAt(LowerAlpha, CHOOSE i \in 1..Len(UpperAlpha) : CharAt(UpperAlpha, i) = c)]

IsDigit(c) == c \in DigitChars

IsLowerLetter(c) == c \in LowerLetters

LowerChar(c) == IF c \in DOMAIN LowerOf THEN LowerOf[c] ELSE c

RECURSIVE Lower(_)
Lower(s) == IF s = "" THEN "" ELSE LowerChar(CharAt(s, 1)) \o Lower(SubSeq(s, 2, Len(s)))

RECURSIVE LStrip(_)
LStrip(s) ==
    IF s # "" /\ IsSpace(CharAt(s, 1)) THEN LStrip(SubSeq(s, 2, Len(s))) ELSE s

RECURSIVE RStrip(_)
RStrip(s) ==
    IF s # "" /\ IsSpace(CharAt(s, Len(s))) THEN RStrip(SubSeq(s, 1, Len(s) - 1)) ELSE s

\* str.strip()
Strip(s) == RStrip(LStrip(s))

\* re.sub(r"\s+", " ", s): every maximal run of whitespace becomes one space
RECURSIVE CollapseSpaces(_)
CollapseSpaces(s) ==
    IF s = "" THEN ""
    ELSE IF IsSpace(CharAt(s, 1))
         THEN " " \o CollapseSpaces(LStrip(s))
         ELSE CharAt(s, 1) \o CollapseSpaces(SubSeq(s, 2, Len(s)))

\* Mutant of normalize: one whitespace character is stripped at each end
\* instead of the whole run.
normalize_stripping_one_char(s) ==
    LET t == Lower(s)
        l == IF t # "" /\ IsSpace(CharAt(t, 1)) THEN SubSeq(t, 2, Len(t)) ELSE t
        r == IF l # "" /\ IsSpace(CharAt(l, Len(l))) THEN SubSeq(l, 1, Len(l) - 1) ELSE l
    IN  CollapseSpaces(r)

normalize(s) == CollapseSpaces(Strip(Lower(s)))

\* re.sub(r"[^a-z0-9\s]", "", s)
RECURSIVE DropNonLetters(_)
DropNonLetters(s) ==
    IF s = "" THEN ""
    ELSE LET c == CharAt(s, 1) IN
         (IF IsLowerLetter(c) \/ IsDigit(c) \/ IsSpace(c) THEN c ELSE "")
            \o DropNonLetters(SubSeq(s, 2, Len(s)))

strip_nonletters(s) == DropNonLetters(normalize(s))

(***************************************************************************)
(* Optional values (None or a value)                                       *)
(***************************************************************************)
None == <<>>
Some(v) == <<v>>
IsNone(o) == o = <<>>
Val(o) == o[1]

(***************************************************************************)
(* State                                                                   *)
(***************************************************************************)

\* A local variable: v is evaluated once and F is applied to its value.
Bind(v, F(_)) == CHOOSE r \in {F(x) : x \in {v}} : TRUE

VARIABLES
    commodities,  \* _CACHE["commodities"]: None or Some(list of catalog entries)
    countries,    \* _CACHE["countries"]:   None or Some(list of catalog entries)
    year_data,    \* _CACHE["year_data"]: dict, as a sequence of [key, val] in insertion order
    net,          \* what the upstream provider currently answers (the environment)
    resp,         \* the last request: its operation, inputs, response and upstream calls
    hist,         \* ghost: every key a successful miss inserted into year_data, in order
    pc, tkey, tres, told   \* threads of concurrent fetch_year_data calls (SpecConc)

vars == <<commodities, countries, year_data, net, resp, hist, pc, tkey, tres, told>>

(***************************************************************************)
(* The upstream provider (environment) and call_fas                        *)
(***************************************************************************)
\* A transport outcome: ConnFail (requests.get raised) or an HTTP status code.
ConnFail == 0

\* The provider's commodity and country catalogs, by catalog version.
CornCode == "0440000"
SoyCode == "2222000"
CommodityCatalog(ver) ==
    << [name |-> "Corn", code |-> CornCode],
       [name |-> "Meal, Soybean", code |-> "0813100"],
       [name |-> "Oil, Soybean", code |-> "4232000"],
       [name |-> "Soybeans", code |-> SoyCode] >>
    \o (IF ver = 1 THEN <<>> ELSE << [name |-> "Cornmeal", code |-> "0459100"] >>)

WorldCode == "00"
CountryCatalog(ver) ==
    << [name |-> "Argentina", code |-> "AR"],
       [name |-> "Brazil", code |-> "BR"],
       [name |-> "United States", code |-> "US"] >>
    \o (IF ver = 1 THEN << [name |-> "World", code |-> WorldCode] >> ELSE <<>>)

\* One AttributeRow. value is None when the provider's Value is null or not a number.
Row(attr, ccode, cname, value, unit) ==
    [attr |-> attr, ccode |-> ccode, cname |-> cname, value |-> value, unit |-> unit]

\* The provider revises only the data of these years; ver is the revision.
RevisedYears == {0, 2}
Rev(year, ver) == IF year \in RevisedYears THEN ver ELSE 1

\* The provider's rows for (code, year), by data version: four kinds of year.
ProviderRows(code, year, ver) ==
    IF code # CornCode THEN <<>>
    ELSE CASE year % 4 = 0 ->
                << Row("Production", WorldCode, "World", Some(100 + Rev(year, ver)), "(1000 MT)"),
                   Row("Production", "BR", "Brazil", Some(40 + year), "(1000 MT)"),
                   Row("Ending Stocks", "BR", "Brazil", Some(7), "(1000 MT)"),
                   Row("Production", "AR", "Argentina", Some(30), "(1000 MT)") >>
           [] year % 4 = 1 ->
                << Row("Production", "AR", "Argentina", Some(30), "(1000 MT)"),
                   Row("Production", "US", "United States", None, "(1000 MT)"),
                   Row("Production", "BR", "Brazil", Some(40 + Rev(year, ver)), "(1000 MT)"),
                   Row("Yield", "BR", "Brazil", Some(5), "(MT/HA)") >>
           [] year % 4 = 2 ->
                << Row("Ending Stocks", "AR", "Argentina", Some(3 + Rev(year, ver)), "(1000 MT)") >>
           [] OTHER -> <<>>

\* The rows the provider serves: the fixture above, or rows given in net.
ServedRows(n, code, year) ==
    IF n.given THEN n.rows ELSE ProviderRows(code, year, n.ver)

\* call_fas(endpoint, params): the envelope and the status the transport returns.
\* A request that raised gives ok = False and status 502; otherwise the HTTP
\* status is passed through and ok is 200 <= status < 300.
call_fas(n, endpoint, params) ==
    LET out == CASE endpoint = "LookupData/GetCommodities" -> n.commSt
                 [] endpoint = "LookupData/GetCountries" -> n.ctrySt
                 [] OTHER -> IF params[2] \in n.down THEN n.yearSt ELSE 200
        data == CASE endpoint = "LookupData/GetCommodities" -> CommodityCatalog(n.ver)
                  [] endpoint = "LookupData/GetCountries" -> CountryCatalog(n.ver)
                  [] OTHER -> ServedRows(n, params[1], params[2])
    IN  IF out = ConnFail
        THEN [env |-> [ok |-> FALSE, status_code |-> 502, data |-> <<>>], st |-> 502]
        ELSE [env |-> [ok |-> (200 <= out /\ out < 300), status_code |-> out,
                       data |-> IF out = 200 THEN data ELSE <<>>],
              st |-> out]

(***************************************************************************)
(* The caches.  A context c is the part of the process state a call reads  *)
(* and writes: the three caches and the log of upstream calls it made.     *)
(***************************************************************************)
Ctx(comm, ctry, yd, calls) ==
    [commodities |-> comm, countries |-> ctry, year_data |-> yd, calls |-> calls]

Call(endpoint, params) == [endpoint |-> endpoint, params |-> params]

\* dict operations on a sequence of [key, val] records
HasKey(d, k) == \E i \in 1..Len(d) : d[i].key = k
Get(d, k) == d[CHOOSE i \in 1..Len(d) : d[i].key = k].val
Put(d, k, v) ==
    IF HasKey(d, k)
    THEN [i \in 1..Len(d) |-> IF d[i].key = k THEN [key |-> k, val |-> v] ELSE d[i]]
    ELSE Append(d, [key |-> k, val |-> v])
Pop(d, k) == SelectSeq(d, LAMBDA e : e.key # k)
Keys(d) == [i \in 1..Len(d) |-> d[i].key]

\* Mutant of fetch_commodities: the cache is not consulted.
fetch_commodities_refetching(c, n) ==
    LET r == call_fas(n, "LookupData/GetCommodities", <<>>)
        c1 == [c EXCEPT !.calls = Append(@, Call("LookupData/GetCommodities", <<>>))]
    IN  IF r.st # 200 \/ ~r.env.ok
        THEN [ctx |-> c1, val |-> None,
              err |-> Some([error |-> "Falha ao buscar commodities", details |-> r.env])]
        ELSE [ctx |-> [c1 EXCEPT !.commodities = Some(r.env.data)],
              val |-> Some(r.env.data), err |-> None]

\* fetch_commodities()
fetch_commodities(c, n) ==
    IF ~IsNone(c.commodities)
    THEN [ctx |-> c, val |-> c.commodities, err |-> None]
    ELSE LET r == call_fas(n, "LookupData/GetCommodities", <<>>)
             c1 == [c EXCEPT !.calls = Append(@, Call("LookupData/GetCommodities", <<>>))]
         IN  IF r.st # 200 \/ ~r.env.ok
             THEN [ctx |-> c1, val |-> None,
                   err |-> Some([error |-> "Falha ao buscar commodities", details |-> r.env])]
             ELSE [ctx |-> [c1 EXCEPT !.commodities = Some(r.env.data)],
                   val |-> Some(r.env.data), err |-> None]

\* fetch_countries()
fetch_countries(c, n) ==
    IF ~IsNone(c.countries)
    THEN [ctx |-> c, val |-> c.countries, err |-> None]
    ELSE LET r == call_fas(n, "LookupData/GetCountries", <<>>)
             c1 == [c EXCEPT !.calls = Append(@, Call("LookupData/GetCountries", <<>>))]
         IN  IF r.st # 200 \/ ~r.env.ok
             THEN [ctx |-> c1, val |-> None,
                   err |-> Some([error |-> "Falha ao buscar países", details |-> r.env])]
             ELSE [ctx |-> [c1 EXCEPT !.countries = Some(r.env.data)],
                   val |-> Some(r.env.data), err |-> None]

\* The cap of the year-data cache.
YearCacheCap == 50

\* Mutant of evict: a cache over the cap is emptied.
evict_clearing(d) == IF Len(d) > YearCacheCap THEN <<>> ELSE d

\* Mutant of evict: dict.popitem() in place of pop(next(iter(d))) removes the
\* newest entry.
evict_popitem(d) == IF Len(d) > YearCacheCap THEN SubSeq(d, 1, Len(d) - 1) ELSE d

\* "evita cache infinito": with more than YearCacheCap entries, pop the first key
\* the dict iterates, which is the oldest-inserted one.
evict(d) == IF Len(d) > YearCacheCap THEN Pop(d, d[1].key) ELSE d

\* Mutant of fetch_year_data: a failed fetch is stored as an empty row list.
fetch_year_data_caching_failures(c, n, commodity_code, market_year) ==
    LET key == <<commodity_code, market_year>> IN
    IF HasKey(c.year_data, key)
    THEN [ctx |-> c, val |-> Some(Get(c.year_data, key)), err |-> None]
    ELSE LET ep == "CommodityData/GetCommodityDataByYear"
             r == call_fas(n, ep, key)
             c1 == [c EXCEPT !.calls = Append(@, Call(ep, key)),
                             !.year_data = evict(Put(@, key, r.env.data))]
         IN  IF r.st # 200 \/ ~r.env.ok
             THEN [ctx |-> c1, val |-> None,
                   err |-> Some([error |-> "Falha ao buscar dados", details |-> r.env])]
             ELSE [ctx |-> c1, val |-> Some(r.env.data), err |-> None]

\* fetch_year_data(commodity_code, market_year)
fetch_year_data(c, n, commodity_code, market_year) ==
    LET key == <<commodity_code, market_year>> IN
    IF HasKey(c.year_data, key)
    THEN [ctx |-> c, val |-> Some(Get(c.year_data, key)), err |-> None]
    ELSE LET ep == "CommodityData/GetCommodityDataByYear"
             r == call_fas(n, ep, key)
             c1 == [c EXCEPT !.calls = Append(@, Call(ep, key))]
         IN  IF r.st # 200 \/ ~r.env.ok
             THEN [ctx |-> c1, val |-> None,
                   err |-> Some([error |-> "Falha ao buscar dados", details |-> r.env])]
             ELSE [ctx |-> [c1 EXCEPT !.year_data = evict(Put(@, key, r.env.data))],
                   val |-> Some(r.env.data), err |-> None]

(***************************************************************************)
(* Alias tables and resolvers                                              *)
(***************************************************************************)
\* dict.get(key, default) on a table of <<key, value>> pairs
AliasGet(table, key, default) ==
    IF \E i \in 1..Len(table) : table[i][1] = key
    THEN table[CHOOSE i \in 1..Len(table) : table[i][1] = key][2]
    ELSE default

PT_COMMODITY_ALIASES ==
    << <<"soja", <<"soybeans", "soybean", "soy", "oilseed, soybean">> >>,
       <<"milho", <<"corn", "maize">> >>,
       <<"arroz", <<"rice">> >>,
       <<"algodao", <<"cotton">> >>,
       <<"algodão", <<"cotton">> >>,
       <<"cafe", <<"coffee">> >>,
       <<"café", <<"coffee">> >>,
       <<"acucar", <<"sugar">> >>,
       <<"açúcar", <<"sugar">> >>,
       <<"carne bovina", <<"beef", "bovine", "cattle", "beef and veal">> >>,
       <<"bovina", <<"beef", "bovine", "cattle">> >>,
       <<"boi", <<"beef", "cattle">> >>,
       <<"gado", <<"cattle", "beef">> >>,
       <<"carne suina", <<"pork", "swine", "hogs">> >>,
       <<"carne suína", <<"pork", "swine", "hogs">> >>,
       <<"suinos", <<"pork", "swine", "hogs">> >>,
       <<"suínos", <<"pork", "swine", "hogs">> >>,
       <<"frango", <<"chicken", "broiler">> >>,
       <<"carne de frango", <<"chicken", "broiler">> >>,
       <<"aves", <<"poultry", "chicken">> >> >>

PT_COUNTRY_ALIASES ==
    << <<"brasil", "brazil">>,
       <<"eua", "united states">>,
       <<"estados unidos", "united states">>,
       <<"reino unido", "united kingdom">>,
       <<"inglaterra", "united kingdom">>,
       <<"alemanha", "germany">>,
       <<"franca", "france">>,
       <<"frança", "france">>,
       <<"espanha", "spain">>,
       <<"italia", "italy">>,
       <<"itália", "italy">>,
       <<"mexico", "mexico">>,
       <<"méxico", "mexico">>,
       <<"argentina", "argentina">>,
       <<"paraguai", "paraguay">>,
       <<"uruguai", "uruguay">>,
       <<"china", "china">>,
       <<"india", "india">>,
       <<"índia", "india">>,
       <<"russia", "russia">>,
       <<"rússia", "russia">>,
       <<"ucranIa", "ukraine">>,
       <<"ucrânia", "ukraine">>,
       <<"africa do sul", "south africa">>,
       <<"áfrica do sul", "south africa">>,
       <<"uniao europeia", "european union">>,
       <<"união europeia", "european union">> >>

METRIC_ALIASES ==
    << <<"producao", "Production">>,
       <<"produção", "Production">>,
       <<"production", "Production">>,
       <<"consumo", "Domestic Consumption">>,
       <<"consumo domestico", "Domestic Consumption">>,
       <<"consumo doméstico", "Domestic Consumption">>,
       <<"domestic consumption", "Domestic Consumption">>,
       <<"importacao", "MY Imports">>,
       <<"importação", "MY Imports">>,
       <<"imports", "MY Imports">>,
       <<"my imports", "MY Imports">>,
       <<"ty imports", "TY Imports">>,
       <<"exportacao", "MY Exports">>,
       <<"exportação", "MY Exports">>,
       <<"exports", "MY Exports">>,
       <<"my exports", "MY Exports">>,
       <<"ty exports", "TY Exports">>,
       <<"estoque inicial", "Beginning Stocks">>,
       <<"beginning stocks", "Beginning Stocks">>,
       <<"estoque final", "Ending Stocks">>,
       <<"ending stocks", "Ending Stocks">>,
       <<"oferta total", "Total Supply">>,
       <<"total supply", "Total Supply">> >>

metric_canonical(metric) == AliasGet(METRIC_ALIASES, normalize(metric), metric)

\* commodity_display / commodity_code: the entry's name and code, stripped.  The
\* catalog entries of this model carry one name field and one code field.
commodity_display(it) == Strip(it.name)
commodity_code(it) == Strip(it.code)

StartsWith(s, prefix) == Len(s) >= Len(prefix) /\ SubSeq(s, 1, Len(prefix)) = prefix

Max(a, b) == IF a >= b THEN a ELSE b
Min(a, b) == IF a <= b THEN a ELSE b

score_commodity(name, query_norm) ==
    LET n == normalize(name)
        s1 == IF query_norm # "" /\ Contains(n, query_norm) THEN 10 ELSE 0
        soy == query_norm \in {"soja", "soybeans", "soybean", "soy"}
        s2 == IF soy /\ Contains(n, "oilseed") /\ Contains(n, "soybean") THEN 250 ELSE 0
        s3 == IF soy /\ (Strip(n) = "soybeans" \/ StartsWith(n, "soybeans")) THEN 200 ELSE 0
        s4 == IF soy /\ Contains(n, "meal") THEN -200 ELSE 0
        s5 == IF soy /\ Contains(n, "oil, soybean") THEN -120 ELSE 0
    IN  s1 + s2 + s3 + s4 + s5 - (Max(0, Len(n) - 26) \div 5)

\* re.fullmatch(r"\d{5,8}", raw)
AllDigits(s) == \A i \in 1..Len(s) : IsDigit(CharAt(s, i))
\* Mutant of IsCodeLiteral: any run of digits is taken for a code.
IsCodeLiteral_of_any_length(raw) == raw # "" /\ AllDigits(raw)

IsCodeLiteral(raw) == Len(raw) >= 5 /\ Len(raw) <= 8 /\ AllDigits(raw)

\* The (name, code) pairs resolve_commodity collects, alias by alias and, for
\* each alias, in catalog order.
RECURSIVE commodity_candidates(_, _)
commodity_candidates(commodities_list, aliases) ==
    LET hit(it, a_norm, a_clean) ==
            /\ commodity_display(it) # ""
            /\ commodity_code(it) # ""
            /\ \/ (a_norm # "" /\ Contains(normalize(commodity_display(it)), a_norm))
               \/ (a_clean # "" /\ Contains(strip_nonletters(commodity_display(it)), a_clean))
               \/ (a_norm # "" /\ a_norm = normalize(commodity_display(it)))
        with_found(found) ==
            [i \in 1..Len(found) |->
                [name |-> commodity_display(found[i]), code |-> commodity_code(found[i])]]
            \o commodity_candidates(commodities_list, Tail(aliases))
        with_alias(a_norm, a_clean) ==
            Bind(SelectSeq(commodities_list, LAMBDA it : hit(it, a_norm, a_clean)), with_found)
    IN  IF aliases = <<>> THEN <<>>
        ELSE Bind(normalize(Head(aliases)),
                  LAMBDA a_norm : Bind(strip_nonletters(Head(aliases)),
                                       LAMBDA a_clean : with_alias(a_norm, a_clean)))

\* Mutant of best_candidate: the comparison of the scores is the wrong way round.
RECURSIVE best_candidate_lowest_score(_, _, _, _)
best_candidate_lowest_score(candidates, key, best, best_score) ==
    IF candidates = <<>> THEN best
    ELSE LET sc == score_commodity(Head(candidates).name, key) IN
         IF IsNone(best) \/ sc < best_score
         THEN best_candidate_lowest_score(Tail(candidates), key, Some(Head(candidates)), sc)
         ELSE best_candidate_lowest_score(Tail(candidates), key, best, best_score)

\* The first candidate with the highest score (a later one replaces the best
\* only with a strictly higher score).
RECURSIVE best_candidate(_, _, _, _)
best_candidate(candidates, key, best, best_score) ==
    IF candidates = <<>> THEN best
    ELSE LET sc == score_commodity(Head(candidates).name, key) IN
         IF IsNone(best) \/ sc > best_score
         THEN best_candidate(Tail(candidates), key, Some(Head(candidates)), sc)
         ELSE best_candidate(Tail(candidates), key, best, best_score)

Resolved(code, name) == [code |-> code, name |-> name]

resolve_commodity(commodities_list, user_input) ==
    LET raw == Strip(user_input)
        with_candidates(key, candidates) ==
            IF candidates = <<>> THEN Resolved(None, None)
            ELSE Bind(best_candidate(candidates, key, None, 0),
                      LAMBDA best : Resolved(Some(Val(best).code), Some(Val(best).name)))
        with_key(key) ==
            Bind(commodity_candidates(commodities_list,
                                      AliasGet(PT_COMMODITY_ALIASES, key, <<raw>>)),
                 LAMBDA candidates : with_candidates(key, candidates))
    IN  IF IsCodeLiteral(raw) THEN Resolved(Some(raw), None)
        ELSE Bind(normalize(raw), with_key)

resolve_country(countries_list, user_input) ==
    LET raw == Strip(user_input)
        hit(it, t_norm, t_clean) ==
            /\ Strip(it.name) # ""
            /\ Strip(it.code) # ""
            /\ \/ (t_norm # "" /\ t_norm = normalize(Strip(it.name)))
               \/ (t_norm # "" /\ Contains(normalize(Strip(it.name)), t_norm))
               \/ (t_clean # "" /\ Contains(strip_nonletters(Strip(it.name)), t_clean))
        with_found(found) ==
            IF found = <<>> THEN Resolved(None, None)
            ELSE Resolved(Some(Strip(found[1].code)), Some(Strip(found[1].name)))
        with_translated(t_norm, t_clean) ==
            Bind(SelectSeq(countries_list, LAMBDA it : hit(it, t_norm, t_clean)), with_found)
    IN  Bind(AliasGet(PT_COUNTRY_ALIASES, normalize(raw), raw),
             LAMBDA translated : Bind(normalize(translated),
                LAMBDA t_norm : Bind(strip_nonletters(translated),
                    LAMBDA t_clean : with_translated(t_norm, t_clean))))

\* for name_try in ["World", "world", "WORLD"]: the first that resolves
RECURSIVE pick_world_code_from(_, _)
pick_world_code_from(countries_list, names) ==
    IF names = <<>> THEN Resolved(None, None)
    ELSE Bind(resolve_country(countries_list, Head(names)),
              LAMBDA r : IF ~IsNone(r.code) THEN r
                         ELSE pick_world_code_from(countries_list, Tail(names)))

pick_world_code(countries_list) ==
    pick_world_code_from(countries_list, <<"World", "world", "WORLD">>)

\* int(s): surrounding whitespace and one sign are accepted, then decimal digits.
DigitValue(c) == (CHOOSE i \in 1..Len(Digits) : CharAt(Digits, i) = c) - 1

RECURSIVE DigitsValue(_)
DigitsValue(s) ==
    IF s = "" THEN 0
    ELSE 10 * DigitsValue(SubSeq(s, 1, Len(s) - 1)) + DigitValue(CharAt(s, Len(s)))

ParseInt(s) ==
    LET t == Strip(s)
        signed == t # "" /\ CharAt(t, 1) \in {"-", "+"}
        d == IF signed THEN SubSeq(t, 2, Len(t)) ELSE t
    IN  IF d = "" \/ ~AllDigits(d) THEN None
        ELSE Some(IF signed /\ CharAt(t, 1) = "-" THEN 0 - DigitsValue(d) ELSE DigitsValue(d))

\* str.replace for a one-character separator
RECURSIVE ReplaceChar(_, _, _)
ReplaceChar(s, old, new) ==
    IF s = "" THEN ""
    ELSE (IF CharAt(s, 1) = old THEN new ELSE CharAt(s, 1))
            \o ReplaceChar(SubSeq(s, 2, Len(s)), old, new)

\* str.split(",")
RECURSIVE SplitComma(_, _)
SplitComma(s, cur) ==
    IF s = "" THEN <<cur>>
    ELSE IF CharAt(s, 1) = ","
         THEN <<cur>> \o SplitComma(SubSeq(s, 2, Len(s)), "")
         ELSE SplitComma(SubSeq(s, 2, Len(s)), cur \o CharAt(s, 1))

\* "remove duplicados preservando ordem": the first of each normalized form
RECURSIVE DedupNormalized(_, _)
DedupNormalized(parts, seen) ==
    IF parts = <<>> THEN <<>>
    ELSE IF normalize(Head(parts)) \in seen
         THEN DedupNormalized(Tail(parts), seen)
         ELSE <<Head(parts)>> \o DedupNormalized(Tail(parts), seen \cup {normalize(Head(parts))})

parse_countries_param(value) ==
    IF value = "" THEN <<>>
    ELSE LET v == ReplaceChar(ReplaceChar(Strip(value), "|", ","), ";", ",")
             split == SplitComma(v, "")
             stripped == [i \in 1..Len(split) |-> Strip(split[i])]
             parts == SelectSeq(stripped, LAMBDA p : p # "")
         IN  DedupNormalized(parts, {})

(***************************************************************************)
(* Aggregation helpers                                                     *)
(***************************************************************************)
BalanceSheetAttributes ==
    {"Production", "Domestic Consumption", "MY Imports", "TY Imports", "MY Exports",
     "TY Exports", "Beginning Stocks", "Ending Stocks", "Total Supply"}

filter_to_balance_sheet(rows) ==
    SelectSeq(rows, LAMBDA r : Strip(r.attr) \in BalanceSheetAttributes)

\* summarize(rows): attribute -> value and attribute -> unit, the last row of an
\* attribute winning.
RECURSIVE summarize_from(_, _, _)
summarize_from(rows, summary, units) ==
    IF rows = <<>> THEN [summary |-> summary, units |-> units]
    ELSE LET r == Head(rows)
             k == Strip(r.attr)
         IN  IF k = "" THEN summarize_from(Tail(rows), summary, units)
             ELSE summarize_from(Tail(rows), Put(summary, k, r.value), Put(units, k, Strip(r.unit)))

summarize(rows) == summarize_from(rows, <<>>, <<>>)

IsWorldRow(r) == normalize(Strip(r.cname)) = "world"

\* Mutant of sum_world_from: the World row is summed with the countries.
RECURSIVE sum_world_from_counting_world(_, _, _, _)
sum_world_from_counting_world(rows, total, any_val, unit) ==
    IF rows = <<>> THEN [total |-> IF any_val THEN Some(total) ELSE None, unit |-> unit]
    ELSE LET r == Head(rows) IN
         IF IsNone(r.value)
         THEN sum_world_from_counting_world(Tail(rows), total, any_val, unit)
         ELSE sum_world_from_counting_world(Tail(rows), total + Val(r.value), TRUE,
                                            IF IsNone(unit) THEN Some(Strip(r.unit)) ELSE unit)

\* sum_world_for_metric(rows_metric): the total of the numeric values of the rows
\* that are not the World row (None when there is none) and the unit of the first
\* of them.
RECURSIVE sum_world_from(_, _, _, _)
sum_world_from(rows, total, any_val, unit) ==
    IF rows = <<>> THEN [total |-> IF any_val THEN Some(total) ELSE None, unit |-> unit]
    ELSE LET r == Head(rows) IN
         IF IsWorldRow(r) \/ IsNone(r.value)
         THEN sum_world_from(Tail(rows), total, any_val, unit)
         ELSE sum_world_from(Tail(rows), total + Val(r.value), TRUE,
                             IF IsNone(unit) THEN Some(Strip(r.unit)) ELSE unit)

sum_world_for_metric(rows_metric) == sum_world_from(rows_metric, 0, FALSE, None)

(***************************************************************************)
(* Request handlers.  A handler takes the query q, the context c and the   *)
(* provider n and gives the HTTP status, the JSON body and the context it  *)
(* leaves.  A query parameter with an empty default is "" when absent; one *)
(* with another default is None when absent.  The commodity description,   *)
(* month and calendar year that the bodies carry along with the unit are   *)
(* not part of the bodies here.                                            *)
(***************************************************************************)
H(status, body, ctx) == [status |-> status, body |-> body, ctx |-> ctx]

ErrBody(msg) == [error |-> msg, details |-> None]
UpstreamErrBody(err) == [error |-> Val(err).error, details |-> Some(Val(err).details)]

ArgGet(o, default) == IF IsNone(o) THEN default ELSE Val(o)

WorldWords == {"world", "mundo", "global", "all"}

\* /findCommodity.  catalog is the list the name was resolved in (ghost: the
\* body of the code does not carry it).
find_commodity(q, c, n) ==
    LET with_commodities_list(fc) ==
            IF ~IsNone(fc.err) THEN H(502, UpstreamErrBody(fc.err), fc.ctx)
            ELSE LET with_resolved(r) ==
                        H(200, [input |-> q.name, chosen_code |-> r.code,
                                chosen_name |-> r.name, catalog |-> Val(fc.val)], fc.ctx)
                 IN  Bind(resolve_commodity(Val(fc.val), q.name), with_resolved)
    IN  Bind(fetch_commodities(c, n), with_commodities_list)

\* /findCountry.  catalog is the list the name was resolved in (ghost).
find_country(q, c, n) ==
    LET with_countries_list(fk) ==
            IF ~IsNone(fk.err) THEN H(502, UpstreamErrBody(fk.err), fk.ctx)
            ELSE LET with_resolved(r) ==
                        H(200, [input |-> q.name, chosen_code |-> r.code,
                                chosen_name |-> r.name, catalog |-> Val(fk.val)], fk.ctx)
                 IN  Bind(resolve_country(Val(fk.val), q.name), with_resolved)
    IN  Bind(fetch_countries(c, n), with_countries_list)

\* The attribute -> unit dict of /metrics: the first row of an attribute wins.
RECURSIVE metrics_info(_, _)
metrics_info(rows, info) ==
    IF rows = <<>> THEN info
    ELSE LET ad == Strip(Head(rows).attr) IN
         IF ad = "" \/ HasKey(info, ad) THEN metrics_info(Tail(rows), info)
         ELSE metrics_info(Tail(rows), Put(info, ad, Strip(Head(rows).unit)))

\* /metrics, once year is parsed: the commodity, its rows, the answer.  The
\* body lists the metrics sorted by name; here it is their set.
metrics_of_year(q, c, n, year_i) ==
    LET with_rows(fy) ==
            IF ~IsNone(fy.err) THEN H(502, UpstreamErrBody(fy.err), fy.ctx)
            ELSE LET with_info(info) ==
                        H(200, [metrics |-> {[metric |-> info[i].key, unit |-> info[i].val] :
                                                i \in 1..Len(info)}], fy.ctx)
                 IN  Bind(metrics_info(Val(fy.val), <<>>), with_info)
        with_commodity_code(fc, rc) ==
            IF IsNone(rc.code) THEN H(404, ErrBody("Commodity nao encontrada"), fc.ctx)
            ELSE Bind(fetch_year_data(fc.ctx, n, Val(rc.code), year_i), with_rows)
        with_commodities_list(fc) ==
            IF ~IsNone(fc.err) THEN H(502, UpstreamErrBody(fc.err), fc.ctx)
            ELSE Bind(resolve_commodity(Val(fc.val), q.commodity),
                      LAMBDA rc : with_commodity_code(fc, rc))
    IN  Bind(fetch_commodities(c, n), with_commodities_list)

\* /metrics
metrics(q, c, n) ==
    LET with_year_i(year_i) ==
            IF IsNone(year_i) THEN H(400, ErrBody("year precisa ser numero (ex.: 2024)."), c)
            ELSE metrics_of_year(q, c, n, Val(year_i))
    IN  IF q.commodity = "" \/ q.year = ""
        THEN H(400, ErrBody("Use /metrics?commodity=milho&year=2024"), c)
        ELSE Bind(ParseInt(q.year), with_year_i)

\* The "fallback soma" of /psd: per attribute, the sum of the numeric values of
\* the rows that are not the World row, and the unit of the first of them.
RECURSIVE psd_sum(_, _, _)
psd_sum(rows, acc, units) ==
    IF rows = <<>> THEN [acc |-> acc, units |-> units]
    ELSE LET r == Head(rows)
             k == Strip(r.attr)
         IN  IF IsWorldRow(r) \/ IsNone(r.value) THEN psd_sum(Tail(rows), acc, units)
             ELSE psd_sum(Tail(rows),
                          Put(acc, k, (IF HasKey(acc, k) THEN Get(acc, k) ELSE 0) + Val(r.value)),
                          IF HasKey(units, k) THEN units ELSE Put(units, k, Strip(r.unit)))

\* /psd for the world: the official World row when the country catalog and the
\* rows have one, else the computed sum.
psd_world(rows, fk) ==
    LET with_summary(s) ==
            H(200, [scope |-> "World (official row)", balance_sheet |-> s.summary,
                    units |-> s.units], fk.ctx)
        with_sum(s) ==
            H(200, [scope |-> "World (computed sum)", balance_sheet |-> s.acc,
                    units |-> s.units], fk.ctx)
        with_world_rows(world_rows) ==
            IF world_rows # <<>> THEN Bind(summarize(world_rows), with_summary)
            ELSE Bind(psd_sum(rows, <<>>, <<>>), with_sum)
        with_world_code(world) ==
            Bind(IF IsNone(world.code) THEN <<>>
                            ELSE SelectSeq(rows, LAMBDA r : Strip(r.ccode) = Val(world.code)), with_world_rows)
    IN  Bind(IF IsNone(fk.err) THEN pick_world_code(Val(fk.val))
                        ELSE Resolved(None, None), with_world_code)

\* /psd for one country
psd_country(rows, fk, country_name) ==
    LET with_summary(ck, s) ==
            H(200, [scope |-> Val(ck.code), balance_sheet |-> s.summary, units |-> s.units],
              fk.ctx)
        with_country_rows(ck, crows) ==
            IF crows = <<>> THEN H(404, ErrBody("Sem dados para o pais nesse ano."), fk.ctx)
            ELSE Bind(summarize(crows),
                      LAMBDA s : with_summary(ck, s))
        with_country_code(ck) ==
            IF IsNone(ck.code) THEN H(404, ErrBody("Pais nao encontrado"), fk.ctx)
            ELSE Bind(SelectSeq(rows, LAMBDA r : Strip(r.ccode) = Val(ck.code)),
                      LAMBDA crows : with_country_rows(ck, crows))
    IN  IF ~IsNone(fk.err) THEN H(502, UpstreamErrBody(fk.err), fk.ctx)
        ELSE Bind(resolve_country(Val(fk.val), country_name), with_country_code)

\* /psd
psd(q, c, n) ==
    LET country_name == ArgGet(q.country, "mundo")
        with_rows(fy) ==
            IF ~IsNone(fy.err) THEN H(502, UpstreamErrBody(fy.err), fy.ctx)
            ELSE IF Val(fy.val) = <<>>
            THEN H(404, ErrBody("Sem dados retornados para esse ano/commodity."), fy.ctx)
            ELSE IF normalize(country_name) \in WorldWords
            THEN Bind(fetch_countries(fy.ctx, n),
                      LAMBDA fk : psd_world(filter_to_balance_sheet(Val(fy.val)), fk))
            ELSE Bind(fetch_countries(fy.ctx, n),
                      LAMBDA fk : psd_country(filter_to_balance_sheet(Val(fy.val)), fk,
                                              country_name))
        with_year_i(fc, rc, year_i) ==
            IF IsNone(year_i) THEN H(400, ErrBody("year precisa ser numero (ex.: 2024)."), fc.ctx)
            ELSE Bind(fetch_year_data(fc.ctx, n, Val(rc.code), Val(year_i)), with_rows)
        with_commodity_code(fc, rc) ==
            IF IsNone(rc.code) THEN H(404, ErrBody("Commodity nao encontrada"), fc.ctx)
            ELSE Bind(ParseInt(q.year),
                      LAMBDA year_i : with_year_i(fc, rc, year_i))
        with_commodities_list(fc) ==
            IF ~IsNone(fc.err) THEN H(502, UpstreamErrBody(fc.err), fc.ctx)
            ELSE Bind(resolve_commodity(Val(fc.val), q.commodity),
                      LAMBDA rc : with_commodity_code(fc, rc))
    IN  IF q.year = "" \/ q.commodity = ""
        THEN H(400, ErrBody("Use /psd?commodity=soja&country=brasil&year=2024"), c)
        ELSE Bind(fetch_commodities(c, n), with_commodities_list)

\* Mutant of sort_desc_insert: sort ascending and reverse, which reverses the
\* rows of equal value.
sort_desc_insert_reversing_ties(sorted, e) ==
    LET before == SelectSeq(sorted, LAMBDA x : x.value > e.value)
        after == SelectSeq(sorted, LAMBDA x : x.value <= e.value)
    IN  before \o <<e>> \o after

\* list.sort(key=value, reverse=True) is stable: an entry goes after every entry
\* already placed whose value is greater or equal.
sort_desc_insert(sorted, e) ==
    LET before == SelectSeq(sorted, LAMBDA x : x.value >= e.value)
        after == SelectSeq(sorted, LAMBDA x : x.value < e.value)
    IN  before \o <<e>> \o after

\* metric_rows.sort(...): the entries lo..hi are placed one by one, in row
\* order, the second half of the range after the first.
RECURSIVE sort_desc(_, _, _, _)
sort_desc(entries, lo, hi, sorted) ==
    IF lo > hi THEN sorted
    ELSE IF lo = hi THEN sort_desc_insert(sorted, entries[lo])
    ELSE Bind(sort_desc(entries, lo, (lo + hi) \div 2, sorted),
              LAMBDA half : sort_desc(entries, (lo + hi) \div 2 + 1, hi, half))

\* The metric_rows of /top: the rows of the metric with a numeric value that are
\* not the World row, in row order.  row is the row's index (ghost).
top_metric_rows(rows, metric) ==
    LET keep == SelectSeq([i \in 1..Len(rows) |-> i],
                          LAMBDA i : /\ Strip(rows[i].attr) = metric
                                     /\ ~IsNone(rows[i].value)
                                     /\ ~IsWorldRow(rows[i]))
    IN  [j \in 1..Len(keep) |->
            [countryCode |-> Strip(rows[keep[j]].ccode),
             countryName |-> Strip(rows[keep[j]].cname),
             value |-> Val(rows[keep[j]].value),
             row |-> keep[j]]]

\* n_i = max(1, min(n_i, 60))
clamp_n(n_i) == Max(1, Min(n_i, 60))

\* /top, once year and n are parsed: the commodity, its rows, the ranking
top_ranking(q, c, n, year_i, n_i, metric) ==
    LET with_sorted(fy, metric_rows, sorted) ==
            H(200, [n |-> n_i, metric_used |-> metric,
                    unit |-> Strip(Val(fy.val)[metric_rows[1].row].unit),
                    top |-> SubSeq(sorted, 1, Min(n_i, Len(sorted)))], fy.ctx)
        with_metric_rows(fy, metric_rows) ==
            IF metric_rows = <<>> THEN H(404, ErrBody("Sem linhas para essa metrica."), fy.ctx)
            ELSE Bind(sort_desc(metric_rows, 1, Len(metric_rows), <<>>),
                      LAMBDA sorted : with_sorted(fy, metric_rows, sorted))
        with_rows(fy) ==
            IF ~IsNone(fy.err) THEN H(502, UpstreamErrBody(fy.err), fy.ctx)
            ELSE Bind(top_metric_rows(Val(fy.val), metric),
                      LAMBDA metric_rows : with_metric_rows(fy, metric_rows))
        with_commodity_code(fc, rc) ==
            IF IsNone(rc.code) THEN H(404, ErrBody("Commodity nao encontrada"), fc.ctx)
            ELSE Bind(fetch_year_data(fc.ctx, n, Val(rc.code), year_i), with_rows)
        with_commodities_list(fc) ==
            IF ~IsNone(fc.err) THEN H(502, UpstreamErrBody(fc.err), fc.ctx)
            ELSE Bind(resolve_commodity(Val(fc.val), q.commodity),
                      LAMBDA rc : with_commodity_code(fc, rc))
    IN  Bind(fetch_commodities(c, n), with_commodities_list)

\* /top
top(q, c, n) ==
    LET with_n_i(year_i, n_parsed) ==
            IF IsNone(n_parsed) THEN H(400, ErrBody("n precisa ser numero (ex.: 15)."), c)
            ELSE top_ranking(q, c, n, Val(year_i), clamp_n(Val(n_parsed)),
                             metric_canonical(ArgGet(q.metric, "Production")))
        with_year_i(year_i) ==
            IF IsNone(year_i) THEN H(400, ErrBody("year precisa ser numero (ex.: 2024)."), c)
            ELSE Bind(ParseInt(ArgGet(q.n, "15")),
                      LAMBDA n_parsed : with_n_i(year_i, n_parsed))
    IN  IF q.commodity = "" \/ q.year = ""
        THEN H(400, ErrBody("Use /top?commodity=milho&year=2024&metric=producao&n=15"), c)
        ELSE Bind(ParseInt(q.year), with_year_i)

\* The year range a series accepts: to - from may not exceed this.
MaxYearSpan == 40

Point(year, value, note) == [year |-> year, value |-> value, note |-> note]

FirstWith(rows, ccode) ==
    LET found == SelectSeq(rows, LAMBDA r : Strip(r.ccode) = ccode) IN
    IF found = <<>> THEN None ELSE Some(found[1])

\* Mutant of series_point_of: a world request takes the computed sum whenever
\* the year has rows of countries, before looking for the world row.
series_point_of_preferring_sum(e, y, mrows, unit) ==
    LET s == sum_world_for_metric(mrows)
        with_rows_wc(wr, cr) ==
            IF e.is_world /\ ~IsNone(s.total) THEN [point |-> Point(y, s.total, None), unit |-> unit]
            ELSE IF ~IsNone(wr) THEN [point |-> Point(y, Val(wr).value, None), unit |-> unit]
            ELSE IF ~IsNone(cr) THEN [point |-> Point(y, Val(cr).value, None), unit |-> unit]
            ELSE [point |-> Point(y, s.total, None), unit |-> unit]
    IN  IF mrows = <<>> THEN [point |-> Point(y, None, None), unit |-> unit]
        ELSE with_rows_wc(IF e.is_world /\ ~IsNone(e.world_code)
                            THEN FirstWith(mrows, Val(e.world_code)) ELSE None,
                          IF ~e.is_world /\ ~IsNone(e.country_code)
                            THEN FirstWith(mrows, Val(e.country_code)) ELSE None)

\* The point of a year of /series from the rows of the metric and the unit the
\* loop leaves.  e holds what the loop does not change.
series_point_of(e, y, mrows, unit) ==
    LET from_row(r) ==
            [point |-> Point(y, r.value, None),
             unit |-> IF IsNone(unit) THEN Some(Strip(r.unit)) ELSE unit]
        from_sum(s) ==
            [point |-> Point(y, s.total, None),
             unit |-> IF IsNone(unit) /\ ~IsNone(s.unit) /\ Val(s.unit) # ""
                      THEN s.unit ELSE unit]
        with_rows_wc(wr, cr) ==
            IF ~IsNone(wr) THEN Bind(Val(wr), from_row)
            ELSE IF ~IsNone(cr) THEN Bind(Val(cr), from_row)
            ELSE IF e.is_world THEN Bind(sum_world_for_metric(mrows), from_sum)
            ELSE [point |-> Point(y, None, None), unit |-> unit]
    IN  IF mrows = <<>> THEN [point |-> Point(y, None, None), unit |-> unit]
        ELSE Bind(IF e.is_world /\ ~IsNone(e.world_code)
                       THEN FirstWith(mrows, Val(e.world_code)) ELSE None,
                  LAMBDA wr : Bind(IF ~e.is_world /\ ~IsNone(e.country_code)
                       THEN FirstWith(mrows, Val(e.country_code)) ELSE None,
                       LAMBDA cr : with_rows_wc(wr, cr)))

\* One pass of the loop of /series over the year y, given what the fetch of the
\* year returned.
series_point(e, y, fy, unit) ==
    IF ~IsNone(fy.err) THEN [point |-> Point(y, None, Some("fetch_error")), unit |-> unit]
    ELSE series_point_of(e, y, SelectSeq(Val(fy.val), LAMBDA r : Strip(r.attr) = e.metric),
                         unit)

\* Mutant of series_pass: a year whose fetch fails is left out of the series.
series_pass_skipping_failed_years(e, n, y, st) ==
    LET with_point(fy, p) ==
            [ctx |-> fy.ctx,
             points |-> IF ~IsNone(fy.err) THEN st.points ELSE Append(st.points, p.point),
             unit |-> p.unit]
        with_rows(fy) == Bind(series_point(e, y, fy, st.unit),
                              LAMBDA p : with_point(fy, p))
    IN  Bind(fetch_year_data(st.ctx, n, e.code, y), with_rows)

\* One pass of the loop of /series: the year y is fetched and its point
\* appended.  st is what the loop changes: the caches and the calls made (ctx),
\* the points and the unit.
series_pass(e, n, y, st) ==
    LET with_point(fy, p) ==
            [ctx |-> fy.ctx, points |-> Append(st.points, p.point), unit |-> p.unit]
        with_rows(fy) == Bind(series_point(e, y, fy, st.unit),
                              LAMBDA p : with_point(fy, p))
    IN  Bind(fetch_year_data(st.ctx, n, e.code, y), with_rows)

\* for y in range(y_from_i, y_to_i + 1): the passes in ascending year order,
\* the second half of the range taking up where the first half ends.
RECURSIVE series_loop(_, _, _, _, _)
series_loop(e, n, y_from, y_to, st) ==
    IF y_from > y_to THEN st
    ELSE IF y_from = y_to THEN series_pass(e, n, y_from, st)
    ELSE Bind(series_loop(e, n, y_from, (y_from + y_to) \div 2, st),
              LAMBDA half : series_loop(e, n, (y_from + y_to) \div 2 + 1, y_to, half))

\* /series, once the range is validated: the commodity, the country or world
\* code (when the country catalog is there to give one), the loop, the answer.
series_of_range(q, c, n, y_from_i, y_to_i) ==
    LET country_name == ArgGet(q.country, "mundo")
        metric == metric_canonical(ArgGet(q.metric, "Production"))
        is_world == normalize(country_name) \in WorldWords
        with_points(world, country, l) ==
            H(200, [from |-> y_from_i, to |-> y_to_i, metric_used |-> metric,
                    country_resolved |->
                        IF is_world THEN ArgGet(world.name, "World")
                        ELSE ArgGet(country.name, country_name),
                    unit |-> l.unit, series |-> l.points], l.ctx)
        with_codes(rc, fk, usable, world, country) ==
            IF usable /\ ~is_world /\ IsNone(country.code)
            THEN H(404, ErrBody("Pais nao encontrado"), fk.ctx)
            ELSE Bind(series_loop([code |-> Val(rc.code), metric |-> metric,
                                 is_world |-> is_world, world_code |-> world.code,
                                 country_code |-> country.code],
                                n, y_from_i, y_to_i,
                                [ctx |-> fk.ctx, points |-> <<>>, unit |-> None]),
                      LAMBDA l : with_points(world, country, l))
        with_usable(rc, fk, usable) ==
            Bind(IF usable /\ is_world THEN pick_world_code(Val(fk.val))
                       ELSE Resolved(None, None),
                 LAMBDA world : Bind(IF usable /\ ~is_world THEN resolve_country(Val(fk.val), country_name)
                       ELSE Resolved(None, None),
                      LAMBDA country : with_codes(rc, fk, usable, world, country)))
        with_countries_list(rc, fk) ==
            Bind(IsNone(fk.err) /\ Val(fk.val) # <<>>,
                 LAMBDA usable : with_usable(rc, fk, usable))
        with_commodity_code(fc, rc) ==
            IF IsNone(rc.code) THEN H(404, ErrBody("Commodity nao encontrada"), fc.ctx)
            ELSE Bind(fetch_countries(fc.ctx, n),
                      LAMBDA fk : with_countries_list(rc, fk))
        with_commodities_list(fc) ==
            IF ~IsNone(fc.err) THEN H(502, UpstreamErrBody(fc.err), fc.ctx)
            ELSE Bind(resolve_commodity(Val(fc.val), q.commodity),
                      LAMBDA rc : with_commodity_code(fc, rc))
    IN  Bind(fetch_commodities(c, n), with_commodities_list)

\* /series
series(q, c, n) ==
    LET with_range(y_from_i, y_to_i) ==
            IF IsNone(y_from_i) \/ IsNone(y_to_i)
            THEN H(400, ErrBody("from e to precisam ser numeros (ex.: 2015 e 2024)."), c)
            ELSE IF Val(y_to_i) < Val(y_from_i) THEN H(400, ErrBody("to precisa ser >= from."), c)
            ELSE IF Val(y_to_i) - Val(y_from_i) > MaxYearSpan
            THEN H(400, ErrBody("Intervalo muito grande. Use no maximo 40 anos."), c)
            ELSE series_of_range(q, c, n, Val(y_from_i), Val(y_to_i))
    IN  IF q.commodity = "" \/ q.from = "" \/ q.to = ""
        THEN H(400, ErrBody("Use /series?commodity=milho&country=brasil&metric=producao&from=2015&to=2024"), c)
        ELSE Bind(ParseInt(q.from),
                  LAMBDA y_from_i : Bind(ParseInt(q.to),
                       LAMBDA y_to_i : with_range(y_from_i, y_to_i)))

\* Mutant of compare_resolve: a country that resolves to nothing is left out.
compare_resolve_dropping_unresolved(countries_list, countries_requested) ==
    LET entry(input, r) == [input |-> input, code |-> r.code, name |-> r.name]
    IN  SelectSeq([i \in 1..Len(countries_requested) |->
                      Bind(resolve_country(countries_list, countries_requested[i]),
                           LAMBDA r : entry(countries_requested[i], r))],
                  LAMBDA rc : ~IsNone(rc.code) /\ ~IsNone(rc.name))

\* resolved_countries of /compare: one entry per requested country
compare_resolve(countries_list, countries_requested) ==
    LET entry(input, r) ==
            IF ~IsNone(r.code) /\ ~IsNone(r.name)
            THEN [input |-> input, code |-> r.code, name |-> r.name]
            ELSE [input |-> input, code |-> None, name |-> None]
    IN  [i \in 1..Len(countries_requested) |->
            Bind(resolve_country(countries_list, countries_requested[i]),
                 LAMBDA r : entry(countries_requested[i], r))]

\* The result slot of one country in mode=psd
compare_psd_slot(rc, rows_bs) ==
    LET with_crows(crows) ==
            IF crows = <<>>
            THEN [country |-> Val(rc.name), countryCode |-> rc.code, error |-> Some("no_data"),
                  balance_sheet |-> <<>>]
            ELSE [country |-> Val(rc.name), countryCode |-> rc.code, error |-> None,
                  balance_sheet |-> summarize(crows).summary]
    IN  IF IsNone(rc.code)
        THEN [country |-> rc.input, countryCode |-> None, error |-> Some("country_not_found"),
              balance_sheet |-> <<>>]
        ELSE Bind(SelectSeq(rows_bs, LAMBDA r : Strip(r.ccode) = Val(rc.code)), with_crows)

\* units_union: the unit of an attribute is that of the first country that has it
RECURSIVE compare_units(_, _, _)
compare_units(resolved_countries, rows_bs, units_union) ==
    LET setdefault(units) ==
            LET add[i \in 0..Len(units)] ==
                    IF i = 0 THEN units_union
                    ELSE IF HasKey(add[i - 1], units[i].key) THEN add[i - 1]
                         ELSE Put(add[i - 1], units[i].key, units[i].val)
            IN  add[Len(units)]
        with_crows(crows) ==
            compare_units(Tail(resolved_countries), rows_bs, setdefault(summarize(crows).units))
        with_rc(rc) ==
            Bind(IF IsNone(rc.code) THEN <<>>
                       ELSE SelectSeq(rows_bs, LAMBDA r : Strip(r.ccode) = Val(rc.code)), with_crows)
    IN  IF resolved_countries = <<>> THEN units_union
        ELSE Bind(Head(resolved_countries), with_rc)

\* One pass of the year loop of one country in mode=series: the year y is
\* fetched and its point appended.  st is what the loop changes.
compare_pass(n, code, metric, ccode, y, st) ==
    LET with_mrows(fy, mrows) ==
            IF mrows = <<>>
            THEN [ctx |-> fy.ctx, points |-> Append(st.points, Point(y, None, None)),
                  unit |-> st.unit]
            ELSE [ctx |-> fy.ctx,
                  points |-> Append(st.points, Point(y, mrows[1].value, None)),
                  unit |-> IF IsNone(st.unit) THEN Some(Strip(mrows[1].unit)) ELSE st.unit]
        with_rows(fy) ==
            Bind(IF ~IsNone(fy.err) THEN <<>>
                 ELSE SelectSeq(Val(fy.val), LAMBDA r : /\ Strip(r.attr) = metric
                                                        /\ Strip(r.ccode) = ccode),
                 LAMBDA mrows : with_mrows(fy, mrows))
    IN  Bind(fetch_year_data(st.ctx, n, code, y), with_rows)

\* for y in range(y_from_i, y_to_i + 1): the points of one resolved country,
\* the second half of the range taking up where the first half ends.
RECURSIVE compare_points(_, _, _, _, _, _, _)
compare_points(n, code, metric, ccode, y_from, y_to, st) ==
    IF y_from > y_to THEN st
    ELSE IF y_from = y_to THEN compare_pass(n, code, metric, ccode, y_from, st)
    ELSE Bind(compare_points(n, code, metric, ccode, y_from, (y_from + y_to) \div 2, st),
              LAMBDA half : compare_points(n, code, metric, ccode,
                                           (y_from + y_to) \div 2 + 1, y_to, half))

\* for rc in resolved_countries: ... (mode=series)
RECURSIVE compare_series_loop(_, _, _, _, _, _, _, _, _)
compare_series_loop(n, code, metric, y_from, y_to, rcs, c, results, unit) ==
    LET with_points(rc, l) ==
            compare_series_loop(n, code, metric, y_from, y_to, Tail(rcs), l.ctx,
                Append(results, [country |-> Val(rc.name), countryCode |-> rc.code,
                                 series |-> Some(l.points), error |-> None]),
                l.unit)
        with_rc(rc) ==
            IF IsNone(rc.code)
            THEN compare_series_loop(n, code, metric, y_from, y_to, Tail(rcs), c,
                     Append(results, [country |-> rc.input, countryCode |-> None,
                                      series |-> None, error |-> Some("country_not_found")]),
                     unit)
            ELSE Bind(compare_points(n, code, metric, Val(rc.code), y_from, y_to,
                                     [ctx |-> c, points |-> <<>>, unit |-> unit]),
                      LAMBDA l : with_points(rc, l))
    IN  IF rcs = <<>> THEN [ctx |-> c, results |-> results, unit |-> unit]
        ELSE Bind(Head(rcs), with_rc)

\* /compare in mode=psd, the countries resolved
compare_psd(q, n, c, code, countries_requested, resolved_countries) ==
    LET with_rows_bs(fy, rows_bs) ==
            H(200, [mode |-> "psd", countries |-> countries_requested,
                    units |-> compare_units(resolved_countries, rows_bs, <<>>),
                    results |-> [i \in 1..Len(resolved_countries) |->
                                    compare_psd_slot(resolved_countries[i], rows_bs)]], fy.ctx)
        with_rows(fy) ==
            IF ~IsNone(fy.err) THEN H(502, UpstreamErrBody(fy.err), fy.ctx)
            ELSE Bind(filter_to_balance_sheet(Val(fy.val)),
                      LAMBDA rows_bs : with_rows_bs(fy, rows_bs))
        with_year_i(year_i) ==
            IF IsNone(year_i) THEN H(400, ErrBody("year precisa ser numero."), c)
            ELSE Bind(fetch_year_data(c, n, code, Val(year_i)), with_rows)
    IN  IF q.year = "" THEN H(400, ErrBody("Para mode=psd, use tambem year (ex.: 2024)."), c)
        ELSE Bind(ParseInt(q.year), with_year_i)

\* /compare in mode=series (the default), the countries resolved
compare_series(q, n, c, code, countries_requested, resolved_countries) ==
    LET metric == metric_canonical(ArgGet(q.metric, "Production"))
        with_results(y_from_i, y_to_i, l) ==
            H(200, [mode |-> "series", countries |-> countries_requested,
                    from |-> y_from_i, to |-> y_to_i, metric_used |-> metric,
                    unit |-> l.unit, results |-> l.results,
                    resolved_countries |-> resolved_countries], l.ctx)
        with_range(y_from_i, y_to_i) ==
            IF IsNone(y_from_i) \/ IsNone(y_to_i)
            THEN H(400, ErrBody("from e to precisam ser numeros."), c)
            ELSE IF Val(y_to_i) < Val(y_from_i) THEN H(400, ErrBody("to precisa ser >= from."), c)
            ELSE IF Val(y_to_i) - Val(y_from_i) > MaxYearSpan
            THEN H(400, ErrBody("Intervalo muito grande. Use no maximo 40 anos."), c)
            ELSE Bind(compare_series_loop(n, code, metric, Val(y_from_i), Val(y_to_i),
                                        resolved_countries, c, <<>>, None),
                      LAMBDA l : with_results(Val(y_from_i), Val(y_to_i), l))
    IN  IF q.from = "" \/ q.to = ""
        THEN H(400, ErrBody("Para mode=series, use metric, from e to."), c)
        ELSE Bind(ParseInt(q.from),
                  LAMBDA y_from_i : Bind(ParseInt(q.to),
                       LAMBDA y_to_i : with_range(y_from_i, y_to_i)))

\* /compare, the country list parsed: the catalogs, the countries, the mode
compare_countries(q, c, n, countries_requested) ==
    LET with_resolved_countries(rcm, fk, resolved_countries) ==
            IF \A i \in 1..Len(resolved_countries) : IsNone(resolved_countries[i].code)
            THEN H(404, [error |-> "Nenhum pais foi resolvido.", details |-> None,
                         resolved_countries |-> resolved_countries], fk.ctx)
            ELSE IF normalize(ArgGet(q.mode, "series")) = "psd"
            THEN compare_psd(q, n, fk.ctx, Val(rcm.code), countries_requested,
                             resolved_countries)
            ELSE compare_series(q, n, fk.ctx, Val(rcm.code), countries_requested,
                                resolved_countries)
        with_countries_list(rcm, fk) ==
            IF ~IsNone(fk.err) THEN H(502, UpstreamErrBody(fk.err), fk.ctx)
            ELSE Bind(compare_resolve(Val(fk.val), countries_requested),
                      LAMBDA resolved_countries : with_resolved_countries(rcm, fk, resolved_countries))
        with_commodity_code(fc, rcm) ==
            IF IsNone(rcm.code) THEN H(404, ErrBody("Commodity nao encontrada"), fc.ctx)
            ELSE Bind(fetch_countries(fc.ctx, n),
                      LAMBDA fk : with_countries_list(rcm, fk))
        with_commodities_list(fc) ==
            IF ~IsNone(fc.err) THEN H(502, UpstreamErrBody(fc.err), fc.ctx)
            ELSE Bind(resolve_commodity(Val(fc.val), q.commodity),
                      LAMBDA rcm : with_commodity_code(fc, rcm))
    IN  Bind(fetch_commodities(c, n), with_commodities_list)

\* /compare
compare(q, c, n) ==
    LET with_countries_requested(countries_requested) ==
            IF countries_requested = <<>> THEN H(400, ErrBody("countries vazio."), c)
            ELSE compare_countries(q, c, n, countries_requested)
    IN  IF q.commodity = "" \/ q.countries = ""
        THEN H(400, ErrBody("Use /compare?mode=series&commodity=milho&..."), c)
        ELSE Bind(parse_countries_param(q.countries), with_countries_requested)

(***************************************************************************)
(* Initial state: the process has just started, the caches are empty.      *)
(***************************************************************************)
Net(commSt, ctrySt, down, yearSt, ver) ==
    [commSt |-> commSt, ctrySt |-> ctrySt, down |-> down, yearSt |-> yearSt,
     ver |-> ver, given |-> FALSE, rows |-> <<>>]

NoRequest == [op |-> "none"]

NoThreads ==
    /\ pc = <<>>
    /\ tkey = <<>>
    /\ tres = <<>>
    /\ told = <<>>

EmptyCaches ==
    /\ commodities = None
    /\ countries = None
    /\ year_data = <<>>

Init ==
    /\ EmptyCaches
    /\ net = Net(200, 200, {}, 500, 1)
    /\ resp = NoRequest
    /\ hist = <<>>
    /\ NoThreads

(***************************************************************************)
(* SpecCache: fetch_year_data calls run one at a time.                     *)
(*                                                                         *)
(* The code compares keys only for equality, so which key is new is        *)
(* immaterial: new keys are the years 0, 1, 2, ... in this order, and a    *)
(* call asks for the next new year, for the newest year inserted, or again *)
(* for one of the HotYears (a hit, or a miss once it has been evicted).    *)
(***************************************************************************)
MaxInserts == 53
HotYears == {0, 1, 2}
FlakyYears == {1}

HighWater == IF hist = <<>> THEN -1
             ELSE CHOOSE y \in {hist[i][2] : i \in 1..Len(hist)} :
                    \A i \in 1..Len(hist) : hist[i][2] <= y

CandidateYears ==
    {y \in HotYears \cup {HighWater, HighWater + 1} : y >= 0 /\ y <= HighWater + 1}

\* The provider changes what it answers: a year goes down or comes back, with
\* either failure kind, or the data is revised.
CacheNetChange ==
    /\ \E down \in SUBSET FlakyYears, st \in {ConnFail, 204, 500}, ver \in 1..2 :
          /\ net' = Net(200, 200, down, st, ver)
          /\ net' # net
          /\ (down = {} => st = 500)
    /\ UNCHANGED <<commodities, countries, year_data, resp, hist, pc, tkey, tres, told>>

\* One call fetch_year_data(CornCode, y), from entry to return.
CacheFetch ==
    \E y \in CandidateYears :
        LET key == <<CornCode, y>>
            r == fetch_year_data(Ctx(commodities, countries, year_data, <<>>), net, CornCode, y)
            inserted == ~HasKey(year_data, key) /\ IsNone(r.err)
        IN  /\ inserted => Len(hist) < MaxInserts
            /\ year_data' = r.ctx.year_data
            /\ commodities' = r.ctx.commodities
            /\ countries' = r.ctx.countries
            /\ hist' = IF inserted THEN Append(hist, key) ELSE hist
            /\ resp' = [op |-> "fetch_year_data", key |-> key, before |-> year_data,
                        calls |-> r.ctx.calls, val |-> r.val, err |-> r.err]
            /\ UNCHANGED <<net, pc, tkey, tres, told>>

NextCache == CacheFetch \/ CacheNetChange

SpecCache == Init /\ [][NextCache]_vars

\* C1: after any sequence of fetch_year_data calls run one at a time from an
\* empty cache, the cache holds exactly the min(50, k) most recently inserted
\* keys, oldest first, where k is the number of keys successful misses have
\* inserted: never more than 50 entries, all distinct, and a hit changes neither
\* the content nor the order (so not the key evicted next).
C1_CacheIsLastInserted ==
    LET k == Len(hist)
        m == IF k < 50 THEN k ELSE 50
    IN  /\ Len(year_data) <= 50
        /\ Keys(year_data) = SubSeq(hist, k - m + 1, k)
        /\ \A i, j \in 1..Len(year_data) : year_data[i].key = year_data[j].key => i = j

\* A 51st key has been inserted and the first one is gone; the last call was a
\* hit on the entry that is now the oldest.
C1_Witness ==
    /\ Len(hist) = 51
    /\ Len(year_data) = 50
    /\ ~HasKey(year_data, hist[1])
    /\ resp.op = "fetch_year_data"
    /\ HasKey(resp.before, resp.key)
    /\ resp.key = year_data[1].key

\* C2: fetch_year_data calls the upstream exactly when the key is absent on
\* entry, and then once; a hit returns the stored rows and leaves the cache
\* unchanged; a miss whose fetch fails returns the failure and leaves the cache
\* unchanged (so the key is still absent for the next call).
C2_UpstreamCalledOnMissOnly ==
    resp.op = "fetch_year_data" =>
        LET hit == HasKey(resp.before, resp.key) IN
        /\ (resp.calls # <<>>) <=> ~hit
        /\ ~hit => resp.calls = <<Call("CommodityData/GetCommodityDataByYear", resp.key)>>
        /\ hit => /\ resp.val = Some(Get(resp.before, resp.key))
                  /\ IsNone(resp.err)
                  /\ year_data = resp.before
        /\ (~hit /\ ~IsNone(resp.err)) =>
                  /\ IsNone(resp.val)
                  /\ year_data = resp.before
                  /\ ~HasKey(year_data, resp.key)
        /\ (~hit /\ IsNone(resp.err)) =>
                  /\ HasKey(year_data, resp.key)
                  /\ resp.val = Some(Get(year_data, resp.key))

\* A miss whose upstream fetch failed, on a cache that holds other keys.
C2_Witness ==
    /\ resp.op = "fetch_year_data"
    /\ ~HasKey(resp.before, resp.key)
    /\ ~IsNone(resp.err)
    /\ Len(year_data) > 0


(***************************************************************************)
(* SpecConc: concurrent fetch_year_data calls, one per thread, interleaved *)
(* at the granularity of single dict operations.  The process has served   *)
(* requests before: the cache holds the first Prefill years.               *)
(*                                                                         *)
(*   pc      where each thread is in fetch_year_data                       *)
(*   tkey    its local `key`                                               *)
(*   tres    its local `rows` and what it returned                         *)
(*   told    the key next(iter(...)) gave it, once evaluated               *)
(***************************************************************************)
MaxThreads == 2
Threads == 1..MaxThreads
ConcYears == {0, 50, 51}

Prefilled(n) ==
    [i \in 1..n |-> [key |-> <<CornCode, i - 1>>, val |-> ProviderRows(CornCode, i - 1, 1)]]

InitConc ==
    /\ commodities = None
    /\ countries = None
    /\ \E n \in {YearCacheCap - 1, YearCacheCap} : year_data = Prefilled(n)
    /\ \E down \in {{}, {51}} : net = Net(200, 200, down, 500, 2)
    /\ resp = NoRequest
    /\ hist = Keys(year_data)
    /\ pc = [t \in Threads |-> "idle"]
    /\ tkey = [t \in Threads |-> None]
    /\ tres = [t \in Threads |-> [val |-> None, err |-> None]]
    /\ told = [t \in Threads |-> None]

ConcUnchanged == <<commodities, countries, net, resp>>

\* line 277: key = (commodity_code, market_year)
TCall(t) ==
    /\ pc[t] = "idle"
    /\ \E y \in ConcYears : tkey' = [tkey EXCEPT ![t] = Some(<<CornCode, y>>)]
    /\ pc' = [pc EXCEPT ![t] = "test"]
    /\ UNCHANGED <<year_data, hist, tres, told, ConcUnchanged>>

\* line 278: if key in _CACHE["year_data"]
TTest(t) ==
    /\ pc[t] = "test"
    /\ pc' = [pc EXCEPT ![t] = IF HasKey(year_data, Val(tkey[t])) THEN "read" ELSE "fetch"]
    /\ UNCHANGED <<year_data, hist, tkey, tres, told, ConcUnchanged>>

\* line 279: return _CACHE["year_data"][key], None; a missing key raises KeyError
TRead(t) ==
    /\ pc[t] = "read"
    /\ IF HasKey(year_data, Val(tkey[t]))
       THEN /\ tres' = [tres EXCEPT ![t] = [val |-> Some(Get(year_data, Val(tkey[t]))),
                                            err |-> None]]
            /\ pc' = [pc EXCEPT ![t] = "done"]
       ELSE /\ pc' = [pc EXCEPT ![t] = "KeyError"]
            /\ UNCHANGED tres
    /\ UNCHANGED <<year_data, hist, tkey, told, ConcUnchanged>>

\* lines 281-285: the upstream call; on failure return the error
TFetch(t) ==
    /\ pc[t] = "fetch"
    /\ LET r == call_fas(net, "CommodityData/GetCommodityDataByYear", Val(tkey[t])) IN
       IF r.st # 200 \/ ~r.env.ok
       THEN /\ tres' = [tres EXCEPT ![t] =
                           [val |-> None,
                            err |-> Some([error |-> "Falha ao buscar dados", details |-> r.env])]]
            /\ pc' = [pc EXCEPT ![t] = "done"]
       ELSE /\ tres' = [tres EXCEPT ![t] = [val |-> Some(r.env.data), err |-> None]]
            /\ pc' = [pc EXCEPT ![t] = "write"]
    /\ UNCHANGED <<year_data, hist, tkey, told, ConcUnchanged>>

\* line 286: _CACHE["year_data"][key] = rows
TWrite(t) ==
    /\ pc[t] = "write"
    /\ year_data' = Put(year_data, Val(tkey[t]), Val(tres[t].val))
    /\ hist' = IF HasKey(year_data, Val(tkey[t])) THEN hist ELSE Append(hist, Val(tkey[t]))
    /\ pc' = [pc EXCEPT ![t] = "size"]
    /\ UNCHANGED <<tkey, tres, told, ConcUnchanged>>

\* line 289: if len(_CACHE["year_data"]) > 50
TSize(t) ==
    /\ pc[t] = "size"
    /\ pc' = [pc EXCEPT ![t] = IF Len(year_data) > YearCacheCap THEN "oldest" ELSE "done"]
    /\ UNCHANGED <<year_data, hist, tkey, tres, told, ConcUnchanged>>

\* line 290: next(iter(_CACHE["year_data"])); an empty dict raises StopIteration
TOldest(t) ==
    /\ pc[t] = "oldest"
    /\ IF year_data # <<>>
       THEN /\ told' = [told EXCEPT ![t] = Some(year_data[1].key)]
            /\ pc' = [pc EXCEPT ![t] = "pop"]
       ELSE /\ pc' = [pc EXCEPT ![t] = "StopIteration"]
            /\ UNCHANGED told
    /\ UNCHANGED <<year_data, hist, tkey, tres, ConcUnchanged>>

\* line 290: _CACHE["year_data"].pop(k); a missing key raises KeyError.  Line 291
\* returns rows.
TPop(t) ==
    /\ pc[t] = "pop"
    /\ IF HasKey(year_data, Val(told[t]))
       THEN /\ year_data' = Pop(year_data, Val(told[t]))
            /\ pc' = [pc EXCEPT ![t] = "done"]
       ELSE /\ pc' = [pc EXCEPT ![t] = "KeyError"]
            /\ UNCHANGED year_data
    /\ UNCHANGED <<hist, tkey, tres, told, ConcUnchanged>>

NextConc ==
    \E t \in Threads :
        \/ TCall(t)
        \/ TTest(t)
        \/ TRead(t)
        \/ TFetch(t)
        \/ TWrite(t)
        \/ TSize(t)
        \/ TOldest(t)
        \/ TPop(t)

SpecConc == InitConc /\ [][NextConc]_vars

\* C9: under any interleaving of concurrent fetch_year_data calls no call faults
\* because another call removed an entry (an entry found present is still there
\* when it is read, and the key chosen for eviction is still there when it is
\* popped), and every call that returns rows returns the rows of its own key.
C9_ConcurrentCallsDoNotFault ==
    \A t \in Threads :
        /\ pc[t] \notin {"KeyError", "StopIteration"}
        /\ (pc[t] = "done" /\ ~IsNone(tres[t].val)) =>
               Val(tres[t].val) \in
                   {ProviderRows(Val(tkey[t])[1], Val(tkey[t])[2], v) : v \in 1..2}

(***************************************************************************)
(* Requests.  One request is handled at a time, from entry to response;    *)
(* resp records the last request: its operation and query, the status and  *)
(* body returned, the upstream calls it made, the provider it met (net)    *)
(* and the caches on entry (before).                                       *)
(***************************************************************************)
Q0 == [name |-> "", commodity |-> "", country |-> None, year |-> "", metric |-> None,
       n |-> None, from |-> "", to |-> "", mode |-> None, countries |-> ""]

Entry == Ctx(commodities, countries, year_data, <<>>)

\* The request `op` with query q is handled from entry to response h.
Handle(op, h, q) ==
    /\ commodities' = h.ctx.commodities
    /\ countries' = h.ctx.countries
    /\ year_data' = h.ctx.year_data
    /\ resp' = [op |-> op, q |-> q, status |-> h.status, body |-> h.body,
                calls |-> h.ctx.calls, net |-> net,
                before |-> Ctx(commodities, countries, year_data, <<>>)]
    /\ UNCHANGED <<net, hist, pc, tkey, tres, told>>

IsRequest == resp.op \in {"findCommodity", "findCountry", "metrics", "psd", "top",
                          "series", "compare"}

\* The calls of a request to one endpoint, and whether the provider it met
\* answered that endpoint.
CallsTo(endpoint) == SelectSeq(resp.calls, LAMBDA k : k.endpoint = endpoint)
YearCalls == CallsTo("CommodityData/GetCommodityDataByYear")
CommoditiesUp == resp.net.commSt = 200
CountriesUp == resp.net.ctrySt = 200

(***************************************************************************)
(* Spec: every route, with well-formed queries, against a provider whose   *)
(* catalog endpoints fail and recover and whose catalogs are revised.      *)
(***************************************************************************)
FindQueries == {[Q0 EXCEPT !.name = s] : s \in {"soja", "zz"}}

MetricsQueries == {[Q0 EXCEPT !.commodity = "milho", !.year = "1"]}

PsdQueries ==
    {[Q0 EXCEPT !.commodity = "milho", !.year = "1"],
     [Q0 EXCEPT !.commodity = "milho", !.year = "1", !.country = Some("brasil")]}

TopQueries == {[Q0 EXCEPT !.commodity = "milho", !.year = "1", !.metric = Some("Producao")]}

SeriesQueries ==
    {[Q0 EXCEPT !.commodity = "milho", !.from = "1", !.to = "1"],
     [Q0 EXCEPT !.commodity = "milho", !.from = "1", !.to = "1", !.country = Some("brasil")]}

CompareQueries ==
    {[Q0 EXCEPT !.commodity = "milho", !.countries = "brasil,xx-unknown",
                !.mode = Some("psd"), !.year = "1"],
     [Q0 EXCEPT !.commodity = "milho", !.countries = "brasil", !.from = "1", !.to = "1"]}

\* Everything up (either revision), or one of the catalog endpoints down.
NetStates ==
    { Net(200, 200, {}, 500, 1), Net(200, 200, {}, 500, 2),
      Net(500, 200, {}, 500, 1), Net(200, ConnFail, {}, 500, 1) }

FindCommodity == \E q \in FindQueries : \E h \in {find_commodity(q, Entry, net)} : Handle("findCommodity", h, q)
FindCountry == \E q \in FindQueries : \E h \in {find_country(q, Entry, net)} : Handle("findCountry", h, q)
Metrics == \E q \in MetricsQueries : \E h \in {metrics(q, Entry, net)} : Handle("metrics", h, q)
Psd == \E q \in PsdQueries : \E h \in {psd(q, Entry, net)} : Handle("psd", h, q)
Top == \E q \in TopQueries : \E h \in {top(q, Entry, net)} : Handle("top", h, q)
Series == \E q \in SeriesQueries : \E h \in {series(q, Entry, net)} : Handle("series", h, q)
Compare == \E q \in CompareQueries : \E h \in {compare(q, Entry, net)} : Handle("compare", h, q)
\* Between requests the provider changes what it answers.
NetChange ==
    /\ net' \in NetStates
    /\ net' # net
    /\ UNCHANGED <<commodities, countries, year_data, resp, hist, pc, tkey, tres, told>>

Next ==
    \/ FindCommodity
    \/ FindCountry
    \/ Metrics
    \/ Psd
    \/ Top
    \/ Series
    \/ Compare
    \/ NetChange

Spec == Init /\ [][Next]_vars

\* C3: each catalog cache is filled by at most one upstream call, on first
\* use; once a catalog is cached no request calls its endpoint again, the
\* cached list never changes (whatever the provider then serves, and whether or
\* not its endpoint still answers) and is the list the lookups return; and a
\* request that fetches only one catalog leaves the other cache as it was.
C3_CatalogsAreCachedOnceAndKept ==
    IsRequest =>
        /\ ~IsNone(resp.before.commodities) =>
              /\ commodities = resp.before.commodities
              /\ CallsTo("LookupData/GetCommodities") = <<>>
        /\ ~IsNone(resp.before.countries) =>
              /\ countries = resp.before.countries
              /\ CallsTo("LookupData/GetCountries") = <<>>
        /\ IsNone(resp.before.commodities) =>
              /\ Len(CallsTo("LookupData/GetCommodities")) <= 1
              /\ ~IsNone(commodities) =>
                    /\ Len(CallsTo("LookupData/GetCommodities")) = 1
                    /\ CommoditiesUp
                    /\ commodities = Some(CommodityCatalog(resp.net.ver))
        /\ IsNone(resp.before.countries) =>
              /\ Len(CallsTo("LookupData/GetCountries")) <= 1
              /\ ~IsNone(countries) =>
                    /\ Len(CallsTo("LookupData/GetCountries")) = 1
                    /\ CountriesUp
                    /\ countries = Some(CountryCatalog(resp.net.ver))
        /\ resp.op = "findCommodity" =>
              /\ countries = resp.before.countries
              /\ CallsTo("LookupData/GetCountries") = <<>>
              /\ resp.status = 200 => Some(resp.body.catalog) = commodities
              /\ ~IsNone(resp.before.commodities) => resp.status = 200
        /\ resp.op = "findCountry" =>
              /\ commodities = resp.before.commodities
              /\ CallsTo("LookupData/GetCommodities") = <<>>
              /\ resp.status = 200 => Some(resp.body.catalog) = countries
              /\ ~IsNone(resp.before.countries) => resp.status = 200

\* A lookup answered from the commodity cache while the provider serves a
\* revised catalog, with the country cache still empty.
C3_Witness ==
    /\ resp.op = "findCommodity"
    /\ resp.before.commodities = Some(CommodityCatalog(1))
    /\ resp.net.ver = 2
    /\ CommoditiesUp
    /\ resp.status = 200
    /\ resp.body.catalog = CommodityCatalog(1)
    /\ IsNone(countries)

\* C7: in every operation, a catalog fetch that fails upstream makes the
\* operation answer with the upstream failure (502 and its details), and the
\* catalog's endpoint is called once.
C7_CatalogFailureIsReported ==
    IsRequest =>
        /\ (CallsTo("LookupData/GetCommodities") # <<>> /\ ~CommoditiesUp) =>
              /\ Len(CallsTo("LookupData/GetCommodities")) = 1
              /\ resp.status = 502
              /\ ~IsNone(resp.body.details)
        /\ (CallsTo("LookupData/GetCountries") # <<>> /\ ~CountriesUp) =>
              /\ Len(CallsTo("LookupData/GetCountries")) = 1
              /\ resp.status = 502
              /\ ~IsNone(resp.body.details)

(***************************************************************************)
(* SpecInput: the five data routes with well-formed and malformed queries, *)
(* the provider answering everything, from empty caches onwards.           *)
(***************************************************************************)
InputMetricsQueries ==
    {[Q0 EXCEPT !.commodity = "milho", !.year = y] : y \in {"0", "", "abc"}}
    \cup {[Q0 EXCEPT !.year = "0"]}

InputPsdQueries ==
    {[Q0 EXCEPT !.commodity = "milho", !.country = Some("brasil"), !.year = y] :
        y \in {"0", "", "abc"}}
    \cup {[Q0 EXCEPT !.year = "0"]}

InputTopQueries ==
    {[Q0 EXCEPT !.commodity = "milho", !.year = y] : y \in {"0", "", "abc"}}
    \cup {[Q0 EXCEPT !.commodity = "milho", !.year = "0", !.n = Some("abc")]}

InputSeriesQueries ==
    {[Q0 EXCEPT !.commodity = "milho", !.from = r[1], !.to = r[2]] :
        r \in {<<"0", "1">>, <<"0", "">>, <<"abc", "1">>, <<"1", "0">>, <<"0", "41">>}}

InputCompareQueries ==
    {[Q0 EXCEPT !.commodity = "milho", !.countries = "brasil,argentina",
                !.mode = Some("psd"), !.year = y] : y \in {"0", "", "abc"}}
    \cup {[Q0 EXCEPT !.commodity = "milho", !.countries = "brasil,argentina",
                     !.from = r[1], !.to = r[2]] :
            r \in {<<"0", "1">>, <<"", "1">>, <<"0", "abc">>, <<"1", "0">>, <<"0", "41">>}}
    \cup {[Q0 EXCEPT !.commodity = "milho", !.countries = l, !.from = "0", !.to = "1"] :
            l \in {"", " , "}}

InputMetrics == \E q \in InputMetricsQueries : \E h \in {metrics(q, Entry, net)} : Handle("metrics", h, q)
InputPsd == \E q \in InputPsdQueries : \E h \in {psd(q, Entry, net)} : Handle("psd", h, q)
InputTop == \E q \in InputTopQueries : \E h \in {top(q, Entry, net)} : Handle("top", h, q)
InputSeries == \E q \in InputSeriesQueries : \E h \in {series(q, Entry, net)} : Handle("series", h, q)
InputCompare == \E q \in InputCompareQueries : \E h \in {compare(q, Entry, net)} : Handle("compare", h, q)

NextInput ==
    \/ InputMetrics
    \/ InputPsd
    \/ InputTop
    \/ InputSeries
    \/ InputCompare

SpecInput == Init /\ [][NextInput]_vars

\* The input errors of a query: a required parameter is missing (or the country
\* list names nothing), a year or a range bound is not a number, or the range is
\* inverted or too wide.
NotANumber(s) == s # "" /\ IsNone(ParseInt(s))
BadRange(from, to) ==
    \/ from = "" \/ to = ""
    \/ NotANumber(from) \/ NotANumber(to)
    \/ Val(ParseInt(to)) < Val(ParseInt(from))
    \/ Val(ParseInt(to)) - Val(ParseInt(from)) + 1 > 41
BadYear(y) == y = "" \/ NotANumber(y)
IsSeriesMode(q) == IsNone(q.mode) \/ normalize(Val(q.mode)) # "psd"
InputError(op, q) ==
    CASE op \in {"metrics", "psd", "top"} -> q.commodity = "" \/ BadYear(q.year)
      [] op = "series" -> q.commodity = "" \/ BadRange(q.from, q.to)
      [] op = "compare" ->
            \/ q.commodity = ""
            \/ \A i \in 1..Len(q.countries) : CharAt(q.countries, i) \in {" ", ",", ";", "|"}
            \/ (IF IsSeriesMode(q) THEN BadRange(q.from, q.to) ELSE BadYear(q.year))
      [] OTHER -> FALSE

\* C6: in /metrics, /psd, /top, /series and /compare an input error is
\* answered with 400 before any upstream call is made, whatever the caches
\* hold.
C6_InputErrorsBeforeUpstream ==
    (IsRequest /\ InputError(resp.op, resp.q)) =>
        /\ resp.status = 400
        /\ resp.calls = <<>>

(***************************************************************************)
(* SpecCompare: /compare with well-formed queries over several country     *)
(* lists, in both modes, against a provider whose country catalog and      *)
(* whose data of year 0 fail and recover.                                  *)
(***************************************************************************)
CountryLists ==
    {"brasil,argentina,xx-unknown", "xx-unknown", "eua; Brasil |BRASIL", "xx-unknown,eua"}

CompareListQueries ==
    {[Q0 EXCEPT !.commodity = "milho", !.countries = l, !.mode = Some("psd"), !.year = "0"] :
        l \in CountryLists}
    \cup {[Q0 EXCEPT !.commodity = "milho", !.countries = l, !.from = "0", !.to = "1"] :
            l \in CountryLists}

CompareNetStates ==
    { Net(200, 200, {}, 500, 1), Net(200, 500, {}, 500, 1), Net(200, 200, {0}, 204, 1) }

CompareLists ==
    \E q \in CompareListQueries : \E h \in {compare(q, Entry, net)} : Handle("compare", h, q)

CompareNetChange ==
    /\ net' \in CompareNetStates
    /\ net' # net
    /\ UNCHANGED <<commodities, countries, year_data, resp, hist, pc, tkey, tres, told>>

NextCompare == CompareLists \/ CompareNetChange

SpecCompare == Init /\ [][NextCompare]_vars

\* What the provider's catalog gives for the country names of the queries, and
\* the requested names of a query, deduplicated by normalized form.
KnownCountry == [brasil |-> "BR", argentina |-> "AR", eua |-> "US"]
IsKnown(input) == normalize(input) \in DOMAIN KnownCountry
Requested == parse_countries_param(resp.q.countries)
AnyKnown == \E i \in 1..Len(Requested) : IsKnown(Requested[i])

\* The catalogs and (mode=psd) the year's rows are there for the request: in
\* the cache on entry, or served by the provider.
CatalogsServed ==
    /\ ~IsNone(resp.before.commodities) \/ CommoditiesUp
    /\ ~IsNone(resp.before.countries) \/ CountriesUp
YearServed(y) == HasKey(resp.before.year_data, <<CornCode, y>>) \/ y \notin resp.net.down

HasBalanceSheetRows(code, y) ==
    \E i \in 1..Len(ProviderRows(CornCode, y, 1)) :
        /\ ProviderRows(CornCode, y, 1)[i].ccode = code
        /\ ProviderRows(CornCode, y, 1)[i].attr \in BalanceSheetAttributes

\* The slot of the i-th requested country is that country's own: flagged
\* country_not_found under its requested name when the catalog does not have
\* it; else under its code, in mode=psd flagged no_data when the year has no
\* balance-sheet row for it, in mode=series with one point per year.
SlotIsOwn(i) ==
    LET slot == resp.body.results[i]
        input == Requested[i]
    IN  IF ~IsKnown(input)
        THEN /\ slot.country = input
             /\ IsNone(slot.countryCode)
             /\ slot.error = Some("country_not_found")
        ELSE /\ slot.countryCode = Some(KnownCountry[normalize(input)])
             /\ IF IsSeriesMode(resp.q)
                THEN /\ IsNone(slot.error)
                     /\ Len(Val(slot.series)) = 2
                     /\ \A k \in 1..2 : Val(slot.series)[k].year = k - 1
                ELSE slot.error = (IF HasBalanceSheetRows(Val(slot.countryCode), 0)
                                   THEN None ELSE Some("no_data"))

RangeSeriesQueries ==
    {[Q0 EXCEPT !.commodity = "milho", !.from = r[1], !.to = r[2]] :
        r \in {<<"0", "9">>, <<"0", "40">>, <<"0", "41">>}}
    \cup {[Q0 EXCEPT !.commodity = "milho", !.country = Some("brasil"),
                     !.from = "0", !.to = "9"]}

RangeCompareQueries ==
    {[Q0 EXCEPT !.commodity = "milho", !.countries = "brasil,argentina",
                !.from = r[1], !.to = r[2]] :
        r \in {<<"0", "40">>, <<"0", "41">>}}

FailingYears == {1, 2, 5}

RangeNetStates ==
    { Net(200, 200, {}, 500, 1),
      Net(200, 200, FailingYears, 500, 1),
      Net(200, 500, FailingYears, ConnFail, 1) }

RangeSeries ==
    \E q \in RangeSeriesQueries : \E h \in {series(q, Entry, net)} : Handle("series", h, q)

RangeCompare ==
    \E q \in RangeCompareQueries : \E h \in {compare(q, Entry, net)} : Handle("compare", h, q)

RangeNetChange ==
    /\ net' \in RangeNetStates
    /\ net' # net
    /\ UNCHANGED <<commodities, countries, year_data, resp, hist, pc, tkey, tres, told>>

NextRange == RangeSeries \/ RangeCompare \/ RangeNetChange

SpecRange == Init /\ [][NextRange]_vars

\* The bounds of the request, and what happened to a year in it: its fetch
\* failed when the request called the provider for it while the provider was
\* failing on it; the provider's rows of the year have a row of the metric.
ReqFrom == Val(ParseInt(resp.q.from))
ReqTo == Val(ParseInt(resp.q.to))
FetchedYears == {YearCalls[i].params[2] : i \in 1..Len(YearCalls)}
FetchFailed(y) == y \in FetchedYears /\ y \in resp.net.down
HasProductionRow(y) ==
    \E i \in 1..Len(ProviderRows(CornCode, y, 1)) :
        ProviderRows(CornCode, y, 1)[i].attr = "Production"

\* C4: a /series request with from <= to that is accepted (the commodity
\* resolved) is answered with exactly to - from + 1 points, the years from..to
\* in ascending order, whatever happens to each year: a year whose fetch fails
\* gives a null value and the marker fetch_error, a year without a row of
\* the metric gives a null value and no marker, any other year gives a value.
C4_SeriesHasOnePointPerYear ==
    (/\ resp.op = "series"
     /\ ReqFrom <= ReqTo /\ ReqTo - ReqFrom <= MaxYearSpan
     /\ (~IsNone(resp.before.commodities) \/ CommoditiesUp)) =>
        /\ resp.status = 200
        /\ Len(resp.body.series) = ReqTo - ReqFrom + 1
        /\ \A k \in 1..Len(resp.body.series) :
              LET p == resp.body.series[k] IN
              /\ p.year = ReqFrom + k - 1
              /\ FetchFailed(p.year) => (IsNone(p.value) /\ p.note = Some("fetch_error"))
              /\ (~FetchFailed(p.year) /\ ~HasProductionRow(p.year)) =>
                    (IsNone(p.value) /\ IsNone(p.note))
              /\ (~FetchFailed(p.year) /\ HasProductionRow(p.year) /\ CountriesUp) =>
                    (~IsNone(p.value) /\ IsNone(p.note))

\* The years 0..9 with the fetches of three of them failing: ten points, three
\* of them marked, one null for want of a row, the others with values.
C4_Witness ==
    /\ resp.op = "series"
    /\ resp.status = 200
    /\ Len(resp.body.series) = 10
    /\ Cardinality({k \in 1..10 : resp.body.series[k].note = Some("fetch_error")}) = 3
    /\ \E k \in 1..10 : IsNone(resp.body.series[k].value) /\ IsNone(resp.body.series[k].note)
    /\ \E k \in 1..10 : ~IsNone(resp.body.series[k].value)

\* C5: a series request (/series, /compare in mode=series) is accepted only
\* when its inclusive range from..to covers at most 40 years, a wider range
\* being an input error, so that one request fetches the data of at most 40
\* distinct years.
C5_RangeCoversAtMostFortyYears ==
    ((resp.op = "series" \/ (resp.op = "compare" /\ IsSeriesMode(resp.q)))
        /\ ReqFrom <= ReqTo) =>
        /\ (ReqTo - ReqFrom + 1 > 40) => resp.status = 400
        /\ resp.status = 200 => ReqTo - ReqFrom + 1 <= 40
        /\ Cardinality(FetchedYears) <= 40

(***************************************************************************)
(* SpecTop: /top with every kind of n, over data sets of the provider with *)
(* no row, with no qualifying row, with fewer qualifying rows than n and   *)
(* with more than sixty of them.  The rows carry equal values, World rows  *)
(* in several spellings, rows without a numeric value and rows of another  *)
(* attribute.                                                              *)
(***************************************************************************)
TopRow(i) ==
    Row(IF i % 5 = 0 THEN "Ending Stocks" ELSE IF i % 11 = 3 THEN " Production " ELSE "Production",
        "K" \o ToString(i),
        IF i % 9 = 4 THEN (IF i % 2 = 0 THEN " World " ELSE "WORLD") ELSE "Country " \o ToString(i),
        IF i % 6 = 1 THEN None ELSE IF i % 9 = 4 THEN Some(99) ELSE Some((i * 3) % 7),
        "(1000 MT)")

TopData(k) == [i \in 1..k |-> TopRow(i)]

TopSizes == {0, 1, 14, 70, 110}

TopNs == {None, Some("0"), Some("1"), Some("5"), Some("15"), Some("60"), Some("61"),
          Some("100"), Some("-3"), Some(" 7 "), Some("abc")}

TopMetrics == {None, Some("producao"), Some("estoque final")}

TopNQueries ==
    {[Q0 EXCEPT !.commodity = "milho", !.year = "0", !.metric = m, !.n = k] :
        m \in TopMetrics, k \in TopNs}

InitTop ==
    /\ EmptyCaches
    /\ \E k \in TopSizes :
          net = [Net(200, 200, {}, 500, 1) EXCEPT !.given = TRUE, !.rows = TopData(k)]
    /\ resp = NoRequest
    /\ hist = <<>>
    /\ NoThreads

TopN == \E q \in TopNQueries : \E h \in {top(q, Entry, net)} : Handle("top", h, q)

NextTop == TopN

SpecTop == InitTop /\ [][NextTop]_vars

\* The attribute and the n of the request, n clamped to 1..60; the rows of the
\* provider that qualify: of the attribute, with a numeric value, of a country
\* whose name does not normalize to "world"; and the order of the ranking: by
\* value, greatest first, rows of equal value in row order.
TopAttribute == metric_canonical(ArgGet(resp.q.metric, "Production"))
TopRequestedN == ParseInt(ArgGet(resp.q.n, "15"))
TopClampedN ==
    IF Val(TopRequestedN) < 1 THEN 1
    ELSE IF Val(TopRequestedN) > 60 THEN 60 ELSE Val(TopRequestedN)
Qualifying ==
    {i \in 1..Len(resp.net.rows) :
        /\ Strip(resp.net.rows[i].attr) = TopAttribute
        /\ ~IsNone(resp.net.rows[i].value)
        /\ normalize(resp.net.rows[i].cname) # "world"}
RanksBefore(a, b) ==
    \/ Val(resp.net.rows[a].value) > Val(resp.net.rows[b].value)
    \/ (Val(resp.net.rows[a].value) = Val(resp.net.rows[b].value) /\ a < b)

\* C10: for the attribute and the n of the request, /top returns exactly
\* min(clamp(n, 1, 60), q) entries, q being the number of qualifying rows:
\* qualifying rows only (so never a World row), in descending order of value,
\* rows of equal value in row order, and every qualifying row left out ranks
\* after every entry.  With q = 0 it has no entry to return and answers 404.
C10_TopIsTheLargestInStableOrder ==
    (resp.op = "top" /\ ~IsNone(TopRequestedN)) =>
        IF Qualifying = {} THEN resp.status = 404
        ELSE /\ resp.status = 200
             /\ Len(resp.body.top) =
                    (IF TopClampedN <= Cardinality(Qualifying) THEN TopClampedN
                     ELSE Cardinality(Qualifying))
             /\ \A j \in 1..Len(resp.body.top) :
                    /\ resp.body.top[j].row \in Qualifying
                    /\ resp.body.top[j].value = Val(resp.net.rows[resp.body.top[j].row].value)
                    /\ resp.body.top[j].countryCode = resp.net.rows[resp.body.top[j].row].ccode
                    /\ normalize(resp.body.top[j].countryName) # "world"
             /\ \A j, k \in 1..Len(resp.body.top) :
                    j < k => RanksBefore(resp.body.top[j].row, resp.body.top[k].row)
             /\ \A i \in Qualifying \ {resp.body.top[j].row : j \in 1..Len(resp.body.top)} :
                    \A j \in 1..Len(resp.body.top) : RanksBefore(resp.body.top[j].row, i)

\* n = 100 over more than sixty qualifying rows: sixty entries, some of equal
\* value next to each other, and a World row of the attribute whose value
\* exceeds every entry's.
C10_Witness ==
    /\ resp.op = "top"
    /\ resp.status = 200
    /\ TopRequestedN = Some(100)
    /\ Cardinality(Qualifying) > 60
    /\ Len(resp.body.top) = 60
    /\ \E j \in 1..59 : resp.body.top[j].value = resp.body.top[j + 1].value
    /\ \E i \in 1..Len(resp.net.rows) :
          /\ Strip(resp.net.rows[i].attr) = TopAttribute
          /\ normalize(resp.net.rows[i].cname) = "world"
          /\ ~IsNone(resp.net.rows[i].value)
          /\ Val(resp.net.rows[i].value) > resp.body.top[1].value

(***************************************************************************)
(* SpecSoy: resolve_commodity on the names of soybeans, over the catalogs  *)
(* that hold "Soybeans", "Meal, Soybean" and "Oil, Soybean" in any order,  *)
(* alone or with other entries among them.                                 *)
(***************************************************************************)
SoyEntries ==
    { [name |-> "Soybeans", code |-> SoyCode],
      [name |-> "Meal, Soybean", code |-> "0813100"],
      [name |-> "Oil, Soybean", code |-> "4232000"] }

OtherEntries ==
    { [name |-> "Corn", code |-> CornCode],
      [name |-> "Oilseed, Soybean", code |-> "2222001"] }

MaxCatalogLen == 5

SoyCatalogs ==
    {s \in UNION {[1..k -> SoyEntries \cup OtherEntries] : k \in 3..MaxCatalogLen} :
        /\ \A i, j \in DOMAIN s : i # j => s[i] # s[j]
        /\ \A e \in SoyEntries : \E i \in DOMAIN s : s[i] = e}

SoyInputs == {"soja", "soybeans", " Soja ", "SOYBEANS"}

InitSoy ==
    /\ commodities \in {Some(s) : s \in SoyCatalogs}
    /\ countries = None
    /\ year_data = <<>>
    /\ net = Net(200, 200, {}, 500, 1)
    /\ resp = NoRequest
    /\ hist = <<>>
    /\ NoThreads

ResolveSoy ==
    /\ \E input \in SoyInputs :
          resp' = [op |-> "resolve_commodity", input |-> input,
                   out |-> resolve_commodity(Val(commodities), input)]
    /\ UNCHANGED <<commodities, countries, year_data, net, hist, pc, tkey, tres, told>>

NextSoy == ResolveSoy

SpecSoy == InitSoy /\ [][NextSoy]_vars

HasEntry(catalog, name) == \E i \in 1..Len(catalog) : catalog[i].name = name
CodeOf(catalog, name) == catalog[CHOOSE i \in 1..Len(catalog) : catalog[i].name = name].code
IsEntry(out, catalog, name) ==
    out.name = Some(name) /\ out.code = Some(CodeOf(catalog, name))

DigitSeeds == {"0440000123", "4400001239", "1111111111"}

CodeInputs ==
    {SubSeq(d, 1, k) : d \in DigitSeeds, k \in 1..10}
    \cup {SubSeq(d, 1, k) \o "a" : d \in DigitSeeds, k \in 4..8}

CodeCatalogs ==
    { <<>>,
      CommodityCatalog(1),
      << [name |-> "Corn", code |-> "440000"], [name |-> "Item 4400", code |-> "4400"],
         [name |-> "Lot 111111111", code |-> "1111"] >>,
      << [name |-> "Seed 044000012 and 0440000", code |-> "044"],
         [name |-> "1", code |-> "1"], [name |-> "44000012", code |-> "44"] >> }

InitCode ==
    /\ commodities \in {Some(s) : s \in CodeCatalogs}
    /\ countries = None
    /\ year_data = <<>>
    /\ net = Net(200, 200, {}, 500, 1)
    /\ resp = NoRequest
    /\ hist = <<>>
    /\ NoThreads

ResolveCode ==
    /\ \E input \in CodeInputs :
          resp' = [op |-> "resolve_code", input |-> input,
                   out |-> resolve_commodity(Val(commodities), input)]
    /\ UNCHANGED <<commodities, countries, year_data, net, hist, pc, tkey, tres, told>>

NextCode == ResolveCode

SpecCode == InitCode /\ [][NextCode]_vars

OnlyDigits(s) == s # "" /\ \A i \in 1..Len(s) : CharAt(s, i) \in DigitChars

FullCountryCatalog ==
    << [name |-> "Argentina", code |-> "AR"], [name |-> "Brazil", code |-> "BR"],
       [name |-> "China", code |-> "CH"], [name |-> "European Union", code |-> "E4"],
       [name |-> "France", code |-> "FR"], [name |-> "Germany", code |-> "GM"],
       [name |-> "India", code |-> "IN"], [name |-> "Italy", code |-> "IT"],
       [name |-> "Mexico", code |-> "MX"], [name |-> "Paraguay", code |-> "PA"],
       [name |-> "Russia", code |-> "RS"], [name |-> "South Africa", code |-> "SF"],
       [name |-> "Spain", code |-> "SP"], [name |-> "Ukraine", code |-> "UP"],
       [name |-> "United Kingdom", code |-> "UK"], [name |-> "United States", code |-> "US"],
       [name |-> "Uruguay", code |-> "UY"] >>

Reversed(s) == [i \in 1..Len(s) |-> s[Len(s) + 1 - i]]

AliasCatalogs ==
    { <<>>, CountryCatalog(1), CountryCatalog(2), FullCountryCatalog,
      Reversed(FullCountryCatalog) }

InitAlias ==
    /\ commodities = None
    /\ countries \in {Some(s) : s \in AliasCatalogs}
    /\ year_data = <<>>
    /\ net = Net(200, 200, {}, 500, 1)
    /\ resp = NoRequest
    /\ hist = <<>>
    /\ NoThreads

ResolveAlias ==
    /\ \E i \in 1..Len(PT_COUNTRY_ALIASES) :
          resp' = [op |-> "resolve_alias",
                   informal |-> PT_COUNTRY_ALIASES[i][1],
                   canonical |-> PT_COUNTRY_ALIASES[i][2],
                   out_informal |-> resolve_country(Val(countries), PT_COUNTRY_ALIASES[i][1]),
                   out_canonical |-> resolve_country(Val(countries), PT_COUNTRY_ALIASES[i][2])]
    /\ UNCHANGED <<commodities, countries, year_data, net, hist, pc, tkey, tres, told>>

NextAlias == ResolveAlias

SpecAlias == InitAlias /\ [][NextAlias]_vars

\* C13: for every entry (informal term -> canonical term) of the country alias
\* table and every country catalog, resolve_country on the informal term
\* returns the (code, name) it returns on the canonical term; "brasil" resolves
\* to "BR" where the catalog has "Brazil"/"BR".
C13_AliasResolvesAsCanonical ==
    resp.op = "resolve_alias" =>
        /\ resp.out_informal = resp.out_canonical
        /\ (resp.informal = "brasil" /\ \E i \in 1..Len(Val(countries)) :
                Val(countries)[i] = [name |-> "Brazil", code |-> "BR"]) =>
              resp.out_informal = Resolved(Some("BR"), Some("Brazil"))

(***************************************************************************)
(* SpecSum: the computed cross-country sum, over every list of up to       *)
(* MaxRows rows drawn from rows of two attributes, of countries and of the *)
(* World in several spellings, with and without a numeric value, in        *)
(* several units: sum_world_for_metric on the rows of an attribute, and    *)
(* /psd for the world on all the rows.                                     *)
(***************************************************************************)
SumRowPool ==
    { Row("Production", "BR", "Brazil", Some(3), "(1000 MT)"),
      Row("Production", "AR", "Argentina", Some(5), " (MT) "),
      Row("Production", WorldCode, "World", Some(100), "(1000 HA)"),
      Row(" Production ", "W2", " WORLD ", Some(7), "(MT)"),
      Row("Production", "US", "United States", None, "(HA)"),
      Row("Ending Stocks", "BR", "Brazil", Some(4), "(1000 MT)") }

MaxRows == 3

SumRowLists == UNION {[1..k -> SumRowPool] : k \in 0..MaxRows}

InitSum ==
    /\ EmptyCaches
    /\ \E rows \in SumRowLists : \E ver \in {1, 2} :
          net = [Net(200, 200, {}, 500, ver) EXCEPT !.given = TRUE, !.rows = rows]
    /\ resp = NoRequest
    /\ hist = <<>>
    /\ NoThreads

\* sum_world_for_metric on the rows of the attribute, as /series calls it
SumMetric ==
    /\ \E metric \in {"Production", "Ending Stocks"} :
          resp' = [op |-> "sum_world_for_metric", metric |-> metric,
                   out |-> sum_world_for_metric(
                              SelectSeq(net.rows, LAMBDA r : Strip(r.attr) = metric))]
    /\ UNCHANGED <<commodities, countries, year_data, net, hist, pc, tkey, tres, told>>

SumPsd ==
    \E q \in {[Q0 EXCEPT !.commodity = "milho", !.year = "0"]} :
        \E h \in {psd(q, Entry, net)} : Handle("psd", h, q)

NextSum == SumMetric \/ SumPsd

SpecSum == InitSum /\ [][NextSum]_vars

\* The rows that count for an attribute: of the attribute, with a numeric
\* value, of a country whose name does not normalize to "world"; their total;
\* and the unit of the first of them.
Contributing(rows, attr) ==
    {i \in 1..Len(rows) : /\ Strip(rows[i].attr) = attr
                          /\ ~IsNone(rows[i].value)
                          /\ normalize(rows[i].cname) # "world"}
TotalOf(rows, attr) ==
    LET partial[i \in 0..Len(rows)] ==
            IF i = 0 THEN 0
            ELSE partial[i - 1] + (IF i \in Contributing(rows, attr) THEN Val(rows[i].value)
                                   ELSE 0)
    IN  partial[Len(rows)]
FirstUnitOf(rows, attr) ==
    Strip(rows[CHOOSE i \in Contributing(rows, attr) :
                  \A j \in Contributing(rows, attr) : i <= j].unit)

\* C14: the computed sum is, per attribute, the sum of the numeric values of
\* exactly the rows whose country name does not normalize to "world", and the
\* unit is that of the first row that contributed: in sum_world_for_metric
\* (which has no total and no unit when no row contributes) and in the
\* fallback of /psd (which has no entry for an attribute to which no row
\* contributes).
C14_SumIsOverCountriesOnly ==
    /\ resp.op = "sum_world_for_metric" =>
          IF Contributing(net.rows, resp.metric) = {}
          THEN IsNone(resp.out.total) /\ IsNone(resp.out.unit)
          ELSE /\ resp.out.total = Some(TotalOf(net.rows, resp.metric))
               /\ resp.out.unit = Some(FirstUnitOf(net.rows, resp.metric))
    /\ (resp.op = "psd" /\ resp.status = 200 /\ resp.body.scope = "World (computed sum)") =>
          \A attr \in BalanceSheetAttributes :
              IF Contributing(net.rows, attr) = {}
              THEN ~HasKey(resp.body.balance_sheet, attr) /\ ~HasKey(resp.body.units, attr)
              ELSE /\ HasKey(resp.body.balance_sheet, attr)
                   /\ Get(resp.body.balance_sheet, attr) = TotalOf(net.rows, attr)
                   /\ HasKey(resp.body.units, attr)
                   /\ Get(resp.body.units, attr) = FirstUnitOf(net.rows, attr)

\* A sum over three rows of the attribute: a row without a numeric value or a
\* World row, then two rows that count, the unit being the first one's.
C14_Witness ==
    /\ resp.op = "sum_world_for_metric"
    /\ resp.metric = "Production"
    /\ Len(net.rows) = 3
    /\ Cardinality(Contributing(net.rows, "Production")) = 2
    /\ 1 \notin Contributing(net.rows, "Production")
    /\ normalize(net.rows[1].cname) = "world"
    /\ resp.out = [total |-> Some(8), unit |-> Some("(MT)")]

(***************************************************************************)
(* SpecNorm: normalize over every string of up to MaxStrLen characters of  *)
(* an alphabet with letters of both cases, a punctuation mark and three    *)
(* kinds of whitespace.                                                    *)
(***************************************************************************)
NormAlphabet == {"a", "B", ",", " ", "\t", "\n"}

MaxStrLen == 5

RECURSIVE StringsOfLen(_)
StringsOfLen(k) ==
    IF k = 0 THEN {""} ELSE {s \o c : s \in StringsOfLen(k - 1), c \in NormAlphabet}

NormStrings == UNION {StringsOfLen(k) : k \in 0..MaxStrLen}

InitNorm ==
    /\ EmptyCaches
    /\ net = Net(200, 200, {}, 500, 1)
    /\ resp = NoRequest
    /\ hist = <<>>
    /\ NoThreads

\* normalize keeps no state: one application per behaviour covers them all.
Normalize ==
    /\ resp = NoRequest
    /\ \E s \in NormStrings :
          resp' = [op |-> "normalize", s |-> s, once |-> normalize(s),
                   twice |-> normalize(normalize(s))]
    /\ UNCHANGED <<commodities, countries, year_data, net, hist, pc, tkey, tres, told>>

NextNorm == Normalize

SpecNorm == InitNorm /\ [][NextNorm]_vars

\* C15: normalize(normalize(s)) = normalize(s) for every string s, the empty
\* string and the strings of whitespace included (which normalize to "").
C15_NormalizeIsIdempotent ==
    resp.op = "normalize" =>
        /\ resp.twice = resp.once
        /\ (\A i \in 1..Len(resp.s) : IsSpace(CharAt(resp.s, i))) => resp.once = ""

\* A string that normalize changes in its three ways: case, the whitespace at
\* an end and an inner run of whitespace.
C15_Witness ==
    /\ resp.op = "normalize"
    /\ resp.s = "B\t a\n"
    /\ resp.once = "b a"
    /\ resp.twice = "b a"

(***************************************************************************)
(* SpecSeries: /series for the world and for a country over two years,     *)
(* against every list of up to MaxRows rows drawn from rows of the World   *)
(* and of countries, with a country catalog that has a World entry, has    *)
(* none, or cannot be fetched.                                             *)
(***************************************************************************)
SeriesRowPool ==
    { Row("Production", "BR", "Brazil", Some(3), "(1000 MT)"),
      Row("Production", WorldCode, "World", Some(100), "(1000 MT)"),
      Row("Production", WorldCode, "World", None, "(1000 MT)"),
      Row(" Production ", " BR ", "Brazil", Some(4), "(MT)"),
      Row("Ending Stocks", "BR", "Brazil", Some(9), "(1000 MT)") }

SeriesRowLists == UNION {[1..k -> SeriesRowPool] : k \in 0..MaxRows}

ValueSeriesQueries ==
    {[Q0 EXCEPT !.commodity = "milho", !.country = country, !.from = "0", !.to = "1"] :
        country \in {None, Some("brasil")}}

InitSeries ==
    /\ EmptyCaches
    /\ \E rows \in SeriesRowLists : \E cat \in {<<1, 200>>, <<2, 200>>, <<1, 500>>} :
          net = [Net(200, cat[2], {}, 500, cat[1]) EXCEPT !.given = TRUE, !.rows = rows]
    /\ resp = NoRequest
    /\ hist = <<>>
    /\ NoThreads

ValueSeries ==
    \E q \in ValueSeriesQueries : \E h \in {series(q, Entry, net)} : Handle("series", h, q)

NextSeries == ValueSeries

SpecSeries == InitSeries /\ [][NextSeries]_vars

\* The rows of the requested attribute in the year's data, the first of them
\* with a country code, and the code the request has for the world or for the
\* country: the catalog's, when the catalog was fetched and has the entry.
MetricRows == SelectSeq(resp.net.rows, LAMBDA r : Strip(r.attr) = resp.body.metric_used)
RowsWithCode(code) == SelectSeq(MetricRows, LAMBDA r : Strip(r.ccode) = code)
CatalogCodeOf(name) ==
    LET cat == CountryCatalog(resp.net.ver)
    IN  IF CountriesUp /\ \E i \in 1..Len(cat) : cat[i].name = name
        THEN Some(cat[CHOOSE i \in 1..Len(cat) : cat[i].name = name].code)
        ELSE None
ComputedSum ==
    IF Contributing(resp.net.rows, resp.body.metric_used) = {} THEN None
    ELSE Some(TotalOf(resp.net.rows, resp.body.metric_used))
HasRowOfKnownCode(code) == ~IsNone(code) /\ RowsWithCode(Val(code)) # <<>>

\* C16: in /series, the point of a year whose fetch succeeds and that has rows
\* of the requested attribute has, for a world request, the value of the first
\* row with the world code when the world code is known and the year has such
\* a row, and otherwise the computed cross-country sum of the year's rows; for
\* a country request, the value of the first row with the resolved country
\* code, and otherwise null.  So the sum is never the value of a year that has
\* a row with the known world code, and never of a country request.
C16_SeriesValueSelection ==
    (resp.op = "series" /\ resp.status = 200 /\ MetricRows # <<>>) =>
        \A k \in 1..Len(resp.body.series) :
            LET value == resp.body.series[k].value
                world_code == CatalogCodeOf("World")
                country_code == CatalogCodeOf("Brazil")
            IN  IF IsNone(resp.q.country)
                THEN IF HasRowOfKnownCode(world_code)
                     THEN value = RowsWithCode(Val(world_code))[1].value
                     ELSE value = ComputedSum
                ELSE IF HasRowOfKnownCode(country_code)
                     THEN value = RowsWithCode(Val(country_code))[1].value
                     ELSE IsNone(value)

\* A world request with the world code known, over a year that has rows of
\* countries and then the world row: the value is the world row's.
C16_Witness ==
    /\ resp.op = "series"
    /\ resp.status = 200
    /\ IsNone(resp.q.country)
    /\ CatalogCodeOf("World") = Some(WorldCode)
    /\ Len(MetricRows) = 3
    /\ MetricRows[1].ccode = "BR"
    /\ MetricRows[3].ccode = WorldCode
    /\ ComputedSum # None
    /\ resp.body.series[1].value = Some(100)

(***************************************************************************)
(* SpecScore: resolve_commodity with its candidates and their scores, over *)
(* catalogs of up to MaxScoreCatalogLen entries, on inputs that are keys   *)
(* of the alias table, a provider spelling, and a word no entry matches.   *)
(***************************************************************************)
ScoreEntries ==
    { [name |-> "Corn", code |-> CornCode],
      [name |-> "Cattle", code |-> "0011000"],
      [name |-> "Meat, Beef and Veal, Boiled, Canned, Other", code |-> "0111000"],
      [name |-> "Oil, Soybean", code |-> "4232000"] }

MaxScoreCatalogLen == 3

ScoreCatalogs ==
    {s \in UNION {[1..k -> ScoreEntries] : k \in 0..MaxScoreCatalogLen} :
        \A i, j \in DOMAIN s : i # j => s[i] # s[j]}

ScoreInputs == {"milho", "corn", "boi", "trigo"}

InitScore ==
    /\ commodities \in {Some(s) : s \in ScoreCatalogs}
    /\ countries = None
    /\ year_data = <<>>
    /\ net = Net(200, 200, {}, 500, 1)
    /\ resp = NoRequest
    /\ hist = <<>>
    /\ NoThreads

\* The candidates in the order resolve_commodity collects them, each with the
\* alias term of the pass that collected it and the score the selection loop
\* gives it.
RECURSIVE ScoredCandidates(_, _, _)
ScoredCandidates(commodities_list, key, aliases) ==
    IF aliases = <<>> THEN <<>>
    ELSE LET found == commodity_candidates(commodities_list, <<Head(aliases)>>)
         IN  [i \in 1..Len(found) |->
                 [term |-> Head(aliases), name |-> found[i].name, code |-> found[i].code,
                  score |-> score_commodity(found[i].name, key)]]
             \o ScoredCandidates(commodities_list, key, Tail(aliases))

ResolveScored ==
    /\ \E input \in ScoreInputs :
          LET key == normalize(Strip(input)) IN
          resp' = [op |-> "resolve_commodity", input |-> input,
                   scored |-> ScoredCandidates(Val(commodities), key,
                                  AliasGet(PT_COMMODITY_ALIASES, key, <<Strip(input)>>)),
                   out |-> resolve_commodity(Val(commodities), input)]
    /\ UNCHANGED <<commodities, countries, year_data, net, hist, pc, tkey, tres, told>>

NextScore == ResolveScored

SpecScore == InitScore /\ [][NextScore]_vars

\* The length penalty of a name, and the score of a candidate when the 10
\* points go to the alias term that collected it (none of ScoreInputs is a
\* soy word, so the score has these two parts only).
LengthPenalty(name) == Max(0, Len(normalize(name)) - 26) \div 5
TermIsInName(cand) == Contains(normalize(cand.name), normalize(cand.term))

\* C17: each collected candidate receives +10 exactly when the alias term that
\* collected it is a substring of its normalized display name; the candidate
\* returned is one with the highest score, the first collected among
\* these; and with no candidate collected the result is (none, none).
C17_TenPointsForTheCollectingTerm ==
    resp.op = "resolve_commodity" =>
        /\ \A i \in 1..Len(resp.scored) :
              resp.scored[i].score =
                  (IF TermIsInName(resp.scored[i]) THEN 10 ELSE 0)
                      - LengthPenalty(resp.scored[i].name)
        /\ resp.scored = <<>> => resp.out = Resolved(None, None)
        /\ resp.scored # <<>> =>
              \E i \in 1..Len(resp.scored) :
                  /\ resp.out = Resolved(Some(resp.scored[i].code), Some(resp.scored[i].name))
                  /\ \A j \in 1..Len(resp.scored) :
                        resp.scored[j].score <= resp.scored[i].score

\* What the code does: the 10 points go to a candidate whose normalized name
\* contains the normalized input of the user, whatever alias term collected
\* it; the first candidate with the highest such score is returned.
C17_TenPointsForTheUserInput ==
    resp.op = "resolve_commodity" =>
        /\ \A i \in 1..Len(resp.scored) :
              resp.scored[i].score =
                  (IF Contains(normalize(resp.scored[i].name), normalize(resp.input))
                   THEN 10 ELSE 0) - LengthPenalty(resp.scored[i].name)
        /\ resp.scored = <<>> => resp.out = Resolved(None, None)
        /\ resp.scored # <<>> =>
              \E i \in 1..Len(resp.scored) :
                  /\ resp.out = Resolved(Some(resp.scored[i].code), Some(resp.scored[i].name))
                  /\ \A j \in 1..Len(resp.scored) :
                        /\ resp.scored[j].score <= resp.scored[i].score
                        /\ j < i => resp.scored[j].score < resp.scored[i].score

\* "boi" against a catalog with "Cattle" and the boiled meat: the meat, whose
\* name holds the letters "boi", outscores "Cattle" and is returned.
C17_Witness ==
    /\ resp.op = "resolve_commodity"
    /\ resp.input = "boi"
    /\ Len(resp.scored) = 2
    /\ resp.scored[1].term = "beef" /\ resp.scored[1].score = 7
    /\ resp.scored[2].name = "Cattle" /\ resp.scored[2].score = 0
    /\ resp.out.name = Some("Meat, Beef and Veal, Boiled, Canned, Other")

(***************************************************************************)
(* SpecWarm: /compare in mode=series, one request at a time, from year-    *)
(* data caches that are empty, nearly full or full, with the years of the  *)
(* request among their oldest or their newest entries or not in them, for  *)
(* two and three countries over ranges of up to forty-one years, against a *)
(* provider where the data of some years fail and recover between          *)
(* requests.                                                               *)
(***************************************************************************)
CacheOfYears(years) ==
    [i \in 1..Len(years) |->
        [key |-> <<CornCode, years[i]>>, val |-> ProviderRows(CornCode, years[i], 1)]]

YearsFrom(first, count) == [i \in 1..count |-> first + i - 1]

WarmCaches ==
    { <<>>,
      CacheOfYears(YearsFrom(100, YearCacheCap)),
      CacheOfYears(YearsFrom(0, 10) \o YearsFrom(100, YearCacheCap - 10)),
      CacheOfYears(YearsFrom(100, YearCacheCap - 10) \o YearsFrom(0, 10)),
      CacheOfYears(YearsFrom(0, 5) \o YearsFrom(100, YearCacheCap - 10)) }

WarmQueries ==
    {[Q0 EXCEPT !.commodity = "milho", !.countries = l, !.from = r[1], !.to = r[2]] :
        l \in {"brasil,argentina", "brasil,argentina,eua"},
        r \in {<<"0", "40">>, <<"5", "12">>}}

WarmNetStates == { Net(200, 200, {}, 500, 1), Net(200, 200, FailingYears, 500, 1) }

InitWarm ==
    /\ commodities = None
    /\ countries = None
    /\ year_data \in WarmCaches
    /\ net = Net(200, 200, {}, 500, 1)
    /\ resp = NoRequest
    /\ hist = <<>>
    /\ NoThreads

WarmCompare ==
    \E q \in WarmQueries : \E h \in {compare(q, Entry, net)} : Handle("compare", h, q)

WarmNetChange ==
    /\ net' \in WarmNetStates
    /\ net' # net
    /\ UNCHANGED <<commodities, countries, year_data, resp, hist, pc, tkey, tres, told>>

NextWarm == WarmCompare \/ WarmNetChange

SpecWarm == InitWarm /\ [][NextWarm]_vars

\* The calls of the request for the data of one year.
CallsForYear(y) == SelectSeq(YearCalls, LAMBDA k : k.params[2] = y)

\* C18: within one /compare request in mode=series, from any content of the
\* year-data cache, the data of a (commodity code, year) of the range are
\* fetched at most once when the fetch succeeds, however many countries are
\* compared, and the key of every successful fetch of the request is still in
\* the cache when the request ends.
C18_OneFetchPerYearPerRequest ==
    (resp.op = "compare" /\ IsSeriesMode(resp.q) /\ resp.status = 200) =>
        \A y \in FetchedYears :
            y \notin resp.net.down =>
                /\ Len(CallsForYear(y)) = 1
                /\ HasKey(year_data, <<CornCode, y>>)

\* Three countries over forty-one years from a full cache whose oldest entries
\* are years of the range: year 0, cached on entry, is evicted while the
\* first country is served, fetched for the second and kept for the third.
C18_Witness ==
    /\ resp.op = "compare"
    /\ resp.status = 200
    /\ Len(resp.body.results) = 3
    /\ Len(resp.before.year_data) = YearCacheCap
    /\ resp.before.year_data[1].key = <<CornCode, 0>>
    /\ Len(CallsForYear(0)) = 1
    /\ Len(YearCalls) = 41
    /\ HasKey(year_data, <<CornCode, 0>>)

====
